---- MODULE Spec2Model ----
(***************************************************************************)
(* A model of the market-resolution, price-history and series-merge layer  *)
(* of the polymarket client library (src/polymarket).                      *)
(*                                                                         *)
(* The library is single-threaded and synchronous, so every component is   *)
(* a sequential state machine.  `comp` names the component a behaviour     *)
(* exercises; each component has its own specification (SpecRequest,       *)
(* SpecFetch, SpecResolve, SpecMerge, SpecEvent) and Spec is their union.  *)
(*                                                                         *)
(* Conventions                                                             *)
(*  - Python None is the string "None"; an exception is a record           *)
(*    [type, msg] whose msg is the sequence of the text fragments the      *)
(*    code concatenates, so that `"..." in str(e)` is a test on fragments. *)
(*  - Times are small naturals, delays are in units of RETRY_DELAY.        *)
(***************************************************************************)
EXTENDS Integers, Sequences, FiniteSets, TLC

VARIABLES
    comp,           \* which component this behaviour exercises
    \* ---- BaseAPIClient._request_with_retry (one call) ----
    rq_pc,          \* "idle" | "running" | "returned" | "raised"
    rq_params,      \* the kwargs of the call
    attempt,        \* the loop variable `attempt`
    rq_sent,        \* the HTTP requests sent so far: the params of each
    rq_resps,       \* the upstream response each request received
    rq_waits,       \* the argument of each time.sleep so far
    rq_result,      \* NoExc while running, then Returned or the exception raised
    \* ---- PolymarketExtractor._fetch_price_history_with_retry ----
    f_pc,           \* "idle" | "loop" | "done"
    f_mode,         \* "real": self.api is PolymarketAPI; "double": a test double
    f_market,       \* the market argument
    f_interval,     \* the interval argument
    f_start,        \* the start_ts argument
    f_end,          \* the end_ts argument
    retry_count,    \* local retry_count
    current_start,  \* local current_start
    current_end,    \* local current_end
    f_log,          \* one entry per call of self.api.get_price_history
    f_result,       \* NoResult while running, else [kind, isNone, value, exc]
    \* ---- PolymarketAPI.get_market (one call) ----
    r_pc,           \* "idle" | "clob" | "gamma_query" | "gamma_scan" | "done"
    r_slug,         \* the slug argument
    next_cursor,    \* find_market_by_slug's local next_cursor
    r_calls,        \* the client requests made so far, in order
    r_clob,         \* what clob_client.find_market_by_slug returned
    r_gamma,        \* what gamma_client.get_market_by_slug returned
    r_result,       \* what get_market returned
    r_answers,      \* the answers of the Gamma API received so far, in order
    \* ---- DataProcessor merges (one call of each on one input) ----
    m_pc,           \* "idle" | "single" | "event"
    m_histories,    \* the Dict[str, PriceHistory] given to merge_price_histories
    m_event,        \* the EventHistoricalData.market_data given to the event merges
    m_frame,        \* what merge_price_histories returned
    m_mem,          \* what merge_event_price_histories returned
    m_csv,          \* the rows stream_event_to_csv wrote
    m_iter,         \* the rows iterate_event_rows yielded
    \* ---- PolymarketExtractor.extract_all_event_markets (one call) ----
    e_pc,           \* "idle" | "loop" | "done"
    e_markets,      \* event.markets
    e_i,            \* markets the loop of _extract_markets has visited
    market_data,    \* event_data.market_data: slug -> MarketHistoricalData
    successful,     \* _extract_markets' counter
    failed,         \* _extract_markets' counter
    e_fetches,      \* the calls of _fetch_price_history_with_retry and their outcomes
    e_skips,        \* the reporter.market_skip_reason calls
    e_result,       \* what extract_all_event_markets returned
    \* ---- PolymarketAPI.search_markets (one call) ----
    s_pc,           \* "idle" | "clob" | "gamma" | "done"
    s_query,        \* the query argument
    s_limit,        \* the limit argument
    s_cursor,       \* CLOBAPIClient.search_markets' local next_cursor
    s_calls,        \* the client searches called so far, with their limit
    s_pages,        \* pages the CLOB search has requested
    clob_results,   \* CLOBAPIClient.search_markets' results
    gamma_results,  \* what gamma_client.search_markets returned
    s_result,       \* what PolymarketAPI.search_markets returned
    \* ---- PolymarketURLParser.parse (one call) ----
    p_pc,           \* "idle" | "done"
    p_url,          \* the url argument
    p_result,       \* the dict parse returned, or the error it raised
    \* ---- Market construction (models.py) ----
    k_pc,         \* "idle", "built" (a Market was constructed), "raised", "asked"
    k_source,     \* "none", "clob" or "gamma": the factory that was called
    k_data,       \* the payload given to the factory
    k_market,     \* the constructed Market
    k_inactive,   \* truth value of k_market.is_inactive_negrisk_option()
    \* ---- order book (orderbook.py) ----
    o_pc,         \* "idle", "built" (an OrderBook was constructed), "read"
    o_data,       \* the payload given to OrderBook.from_api_response
    bids,         \* OrderBook.bids
    asks,         \* OrderBook.asks
    o_mid,        \* what the property mid_price gave
    o_spread,     \* what the property spread gave
    \* ---- market impact (orderbook.py) ----
    i_size,       \* the size given to get_market_impact
    i_side,       \* the side given to get_market_impact
    i_impact,     \* what get_market_impact returned
    \* ---- optional request parameters (api.py, data_api.py) ----
    q_pc,         \* "idle", "returned", "raised"
    q_call,       \* the operation called and its optional arguments
    q_params,     \* the optional entries of the params dict (Absent: left out)
    q_sent,       \* number of HTTP requests the call sent
    q_exc,        \* the exception the call raised, NoExc when it returned
    \* ---- HTTP sessions of the source clients (api.py) ----
    c_pc,         \* "idle", "ready" (PolymarketAPI was constructed)
    api_key,      \* the api_key given to PolymarketAPI
    c_client,     \* _client of each source client: 0 (None) or a session
    c_sessions,   \* the httpx.Client objects created so far, in order
    c_log,        \* the requests sent and the close() calls made, in order
    \* ---- CLOBAPIClient.find_market_by_slug against one upstream (api.py) ----
    scan_pc,       \* "idle", "scan" (inside `while True`), "done"
    upstream,      \* what the CLOB API answers to GET /markets, per cursor
    scan_slug,     \* the slug looked for
    scan_cursor,   \* the local next_cursor of find_market_by_slug
    scan_requests, \* the next_cursor parameter of each request sent, in order
    scan_result,   \* what find_market_by_slug returned
    \* ---- PolymarketExtractor.extract_from_url (one call) ----
    x_pc,          \* "idle", "get_market", "fetch" (waiting for that call), "done"
    x_url,         \* the url argument
    x_dates_ok,    \* whether start_date and end_date are absent or YYYY-MM-DD
    x_slug,        \* the slug given to api.get_market
    x_found,       \* what api.get_market did: "pending", "found", "none", "raise"
    x_market,      \* the market api.get_market returned
    x_fetch,       \* what _fetch_price_history_with_retry did
    x_steps,       \* the steps of extract_from_url begun so far, in order
    x_reports,     \* the calls made on the reporter, in order
    x_result       \* what extract_from_url did: [kind, price_histories]

rqVars == <<rq_pc, rq_params, attempt, rq_sent, rq_resps, rq_waits, rq_result>>
fVars  == <<f_pc, f_mode, f_market, f_interval, f_start, f_end, retry_count,
            current_start, current_end, f_log, f_result>>
rVars  == <<r_pc, r_slug, next_cursor, r_calls, r_clob, r_gamma, r_result, r_answers>>
mVars  == <<m_pc, m_histories, m_event, m_frame, m_mem, m_csv, m_iter>>
eVars  == <<e_pc, e_markets, e_i, market_data, successful, failed, e_fetches, e_skips, e_result>>
sVars  == <<s_pc, s_query, s_limit, s_cursor, s_calls, s_pages, clob_results, gamma_results, s_result>>
pVars  == <<p_pc, p_url, p_result>>
kVars  == <<k_pc, k_source, k_data, k_market, k_inactive>>
oVars  == <<o_pc, o_data, bids, asks, o_mid, o_spread>>
iVars  == <<i_size, i_side, i_impact>>
qVars  == <<q_pc, q_call, q_params, q_sent, q_exc>>
cVars  == <<c_pc, api_key, c_client, c_sessions, c_log>>
nVars  == <<scan_pc, upstream, scan_slug, scan_cursor, scan_requests, scan_result>>
xVars  == <<x_pc, x_url, x_dates_ok, x_slug, x_found, x_market, x_fetch, x_steps, x_reports, x_result>>
vars   == <<comp, rqVars, fVars, rVars, mVars, eVars, sVars, pVars, kVars, oVars, iVars, qVars, cVars, nVars, xVars>>

\* What the actions of one component leave alone.
FrameRequest == UNCHANGED <<comp, fVars, rVars, mVars, eVars, sVars, pVars, kVars, oVars, iVars, qVars, cVars, nVars, xVars>>
FrameFetch   == UNCHANGED <<comp, rqVars, rVars, mVars, eVars, sVars, pVars, kVars, oVars, iVars, qVars, cVars, nVars, xVars>>
FrameResolve == UNCHANGED <<comp, rqVars, fVars, mVars, eVars, sVars, pVars, kVars, oVars, iVars, qVars, cVars, nVars, xVars>>
FrameMerge   == UNCHANGED <<comp, rqVars, fVars, rVars, eVars, sVars, pVars, kVars, oVars, iVars, qVars, cVars, nVars, xVars>>
FrameEvent   == UNCHANGED <<comp, rqVars, fVars, rVars, mVars, sVars, pVars, kVars, oVars, iVars, qVars, cVars, nVars, xVars>>
FrameSearch  == UNCHANGED <<comp, rqVars, fVars, rVars, mVars, eVars, pVars, kVars, oVars, iVars, qVars, cVars, nVars, xVars>>
FrameParse   == UNCHANGED <<comp, rqVars, fVars, rVars, mVars, eVars, sVars, kVars, oVars, iVars, qVars, cVars, nVars, xVars>>
FrameMarket  == UNCHANGED <<comp, rqVars, fVars, rVars, mVars, eVars, sVars, pVars, oVars, iVars, qVars, cVars, nVars, xVars>>
FrameBook    == UNCHANGED <<comp, rqVars, fVars, rVars, mVars, eVars, sVars, pVars, kVars, iVars, qVars, cVars, nVars, xVars>>
FrameImpact  == UNCHANGED <<comp, rqVars, fVars, rVars, mVars, eVars, sVars, pVars, kVars, qVars, cVars, nVars, xVars>>
FrameQuery   == UNCHANGED <<comp, rqVars, fVars, rVars, mVars, eVars, sVars, pVars, kVars, oVars, iVars, cVars, nVars, xVars>>
FrameSession == UNCHANGED <<comp, rqVars, fVars, rVars, mVars, eVars, sVars, pVars, kVars, oVars, iVars, qVars, nVars, xVars>>
FrameScan    == UNCHANGED <<comp, rqVars, fVars, rVars, mVars, eVars, sVars, pVars, kVars, oVars, iVars, qVars, cVars, xVars>>
FrameSingle  == UNCHANGED <<comp, rqVars, fVars, rVars, mVars, eVars, sVars, pVars, kVars, oVars, iVars, qVars, cVars, nVars>>

----------------------------------------------------------------------------
(* Program constants *)

\* polymarket/config.py, imported by api.py: the request primitive's ceiling.
CONFIG_MAX_RETRIES == 3
RETRY_DELAY == 1
\* polymarket/utils/constants.py, imported by cli/extractor.py: the fetch loop's.
MAX_RETRIES == 3

(* Bounds of the model *)

MaxTs == 4          \* timestamps range over 0..MaxTs
MaxPages == 3       \* pages one CLOB scan may request in the model
MaxT == 2           \* price points carry timestamps 1..MaxT
MaxPts == 2         \* price points per series
MaxMarkets == 3     \* markets per event
MaxLimit == 3       \* search limits range over 0..MaxLimit
MaxSegments == 3    \* path segments of a URL
MaxTokens == 2      \* entries of the tokens array of a trading-API payload
MaxLevels == 2      \* price levels on one side of an order book payload
MaxImpactLevels == 2 \* price levels on one side of a book whose impact is asked
MaxArg == 5         \* the non-zero value of an optional integer argument
MaxOps == 4         \* requests and close() calls made on one PolymarketAPI
MaxScanPages == 4   \* pages requested by one find_market_by_slug

None == "None"
NoExc == [type |-> "None", msg |-> <<>>]
\* The mark of a call that returned normally, where an exception would stand.
Returned == [type |-> "Returned", msg |-> <<>>]

RECURSIVE Pow2(_)
Pow2(n) == IF n = 0 THEN 1 ELSE 2 * Pow2(n - 1)

----------------------------------------------------------------------------
(* Upstream HTTP responses.  kind "ok": a 2xx response with a JSON body;   *)
(* kind "status": a non-2xx response (raise_for_status raises              *)
(* HTTPStatusError); kind "transport": httpx.RequestError/TimeoutException *)

TooLongText == "invalid filters: 'startTs' and 'endTs' interval is too long"

\* The text fragments that contain the phrase "interval is too long".
TooLongTexts == {TooLongText, "interval is too long"}

RespOk(body)          == [kind |-> "ok", code |-> 200, text |-> "", body |-> body]
RespStatus(code, txt) == [kind |-> "status", code |-> code, text |-> txt, body |-> "None"]
RespTransport         == [kind |-> "transport", code |-> 0, text |-> "timed out", body |-> "None"]

\* body: "points" = {"history": [one point]}, "empty" = {"history": []},
\* "malformed" = a JSON value that is not an object with a usable history.
OkResponses     == {RespOk("points"), RespOk("empty"), RespOk("malformed")}
RejectResponses == {RespStatus(400, TooLongText), RespStatus(500, "internal error")}
TransientResponses == {RespStatus(429, "rate limited"), RespTransport}
Responses == OkResponses \cup RejectResponses \cup TransientResponses

----------------------------------------------------------------------------
(* BaseAPIClient._request_with_retry                                       *)

APIError(msg)  == [type |-> "APIError", msg |-> msg]
RateLimitError == [type |-> "RateLimitError", msg |-> <<"Rate limit exceeded">>]

\* The body of one iteration of `for attempt in range(CONFIG_MAX_RETRIES)` once the
\* request of this attempt has received `resp`: return the response, sleep
\* `delay` and continue, or raise.
OnResponse_NoBackoff(att, resp) ==
    IF resp.kind = "ok"
    THEN [next |-> "return", delay |-> 0, exc |-> NoExc]
    ELSE IF resp.kind = "status"
    THEN IF resp.code = 429
         THEN IF att < CONFIG_MAX_RETRIES - 1
              THEN [next |-> "retry", delay |-> RETRY_DELAY, exc |-> NoExc]
              ELSE [next |-> "raise", delay |-> 0, exc |-> RateLimitError]
         ELSE [next |-> "raise", delay |-> 0,
               exc |-> APIError(<<"HTTP ", ToString(resp.code), ": ", resp.text>>)]
    ELSE IF att < CONFIG_MAX_RETRIES - 1
         THEN [next |-> "retry", delay |-> RETRY_DELAY, exc |-> NoExc]
         ELSE [next |-> "raise", delay |-> 0,
               exc |-> APIError(<<"Request failed: ", resp.text>>)]

OnResponse(att, resp) ==
    IF resp.kind = "ok"
    THEN [next |-> "return", delay |-> 0, exc |-> NoExc]
    ELSE IF resp.kind = "status"
    THEN IF resp.code = 429
         THEN IF att < CONFIG_MAX_RETRIES - 1
              THEN [next |-> "retry", delay |-> RETRY_DELAY * Pow2(att), exc |-> NoExc]
              ELSE [next |-> "raise", delay |-> 0, exc |-> RateLimitError]
         ELSE [next |-> "raise", delay |-> 0,
               exc |-> APIError(<<"HTTP ", ToString(resp.code), ": ", resp.text>>)]
    ELSE IF att < CONFIG_MAX_RETRIES - 1
         THEN [next |-> "retry", delay |-> RETRY_DELAY, exc |-> NoExc]
         ELSE [next |-> "raise", delay |-> 0,
               exc |-> APIError(<<"Request failed: ", resp.text>>)]

\* The request parameters a call may carry (the kwargs are passed through
\* unchanged to self.client.request on every attempt).
RequestParams == {[market |-> "t1", startTs |-> 1], [market |-> "t2", startTs |-> 2],
                  [market |-> "t2", startTs |-> 0]}

RqIdle ==
    /\ rq_pc = "idle" /\ rq_params = [market |-> "", startTs |-> 0] /\ attempt = 0
    /\ rq_sent = <<>> /\ rq_resps = <<>> /\ rq_waits = <<>> /\ rq_result = NoExc

\* def _request_with_retry(self, method, endpoint, **kwargs): entry.
RequestCall(params) ==
    /\ comp = "request"
    /\ rq_pc = "idle"
    /\ rq_pc' = "running"
    /\ rq_params' = params
    /\ attempt' = 0
    /\ UNCHANGED <<rq_sent, rq_resps, rq_waits, rq_result>>
    /\ FrameRequest

\* One iteration of the for loop: send the request, receive `resp`, act on it.
RequestAttempt(resp) ==
    /\ comp = "request"
    /\ rq_pc = "running"
    /\ attempt < CONFIG_MAX_RETRIES
    /\ LET r == OnResponse(attempt, resp) IN
       /\ rq_sent' = Append(rq_sent, rq_params)
       /\ rq_resps' = Append(rq_resps, resp)
       /\ IF r.next = "retry"
          THEN /\ rq_waits' = Append(rq_waits, r.delay)
               /\ attempt' = attempt + 1
               /\ UNCHANGED <<rq_pc, rq_result>>
          ELSE /\ rq_pc' = IF r.next = "return" THEN "returned" ELSE "raised"
               /\ rq_result' = IF r.next = "return" THEN Returned ELSE r.exc
               /\ UNCHANGED <<rq_waits, attempt>>
    /\ UNCHANGED rq_params
    /\ FrameRequest

NextRequest ==
    \/ \E params \in RequestParams : RequestCall(params)
    \/ \E resp \in Responses : RequestAttempt(resp)

----------------------------------------------------------------------------
(* The whole of one _request_with_retry call against an upstream that      *)
(* answers the successive requests with script[1], script[2], ... (the     *)
(* last answer repeats): the same loop as RequestAttempt, run to its end.  *)

RECURSIVE RunRequest(_, _)
RunRequest(script, att) ==
    IF att >= CONFIG_MAX_RETRIES
    THEN [next |-> "return", exc |-> NoExc, resp |-> RespOk("None"), sent |-> att]
    ELSE LET resp == script[IF att + 1 <= Len(script) THEN att + 1 ELSE Len(script)]
             r    == OnResponse(att, resp)
         IN  IF r.next = "retry"
             THEN RunRequest(script, att + 1)
             ELSE [next |-> r.next, exc |-> r.exc, resp |-> resp, sent |-> att + 1]

\* What an upstream may answer to the requests of one call: transient
\* failures followed by one final answer, or transient failures throughout.
Scripts ==
    { <<r>> : r \in Responses }
    \cup { <<a, r>> : a \in TransientResponses, r \in Responses }
    \cup { <<a, b, r>> : a \in TransientResponses, b \in TransientResponses,
                         r \in Responses }

----------------------------------------------------------------------------
(* TimeInterval.from_string, CLOBAPIClient.get_price_history,              *)
(* CLOBAPIClient.get_market_prices_all_outcomes,                           *)
(* PolymarketAPI.get_price_history                                         *)

ValidIntervals == {"1m", "1h", "6h", "1d", "1w", "max"}

ValueError(msg) == [type |-> "ValueError", msg |-> msg]

\* `phrase in str(e)` for the phrase "interval is too long".
MsgTooLong(exc) == \E i \in DOMAIN exc.msg : exc.msg[i] \in TooLongTexts

\* CLOBAPIClient.get_price_history for one token.  The interval is converted
\* before the try block; everything after it is inside `except Exception`,
\* which logs and returns None.  series: "points" | "empty" | "None".
ClobGetPriceHistory(token, interval, script) ==
    IF interval \notin ValidIntervals
    THEN [kind |-> "raise", exc |-> ValueError(<<"Invalid interval: ", interval>>),
          series |-> "None", token |-> token, sent |-> 0,
          rejected_too_long |-> FALSE, exhausted |-> FALSE]
    ELSE LET r == RunRequest(script, 0) IN
         [kind |-> "return", exc |-> NoExc,
          series |-> IF r.next = "return" /\ r.resp.body \in {"points", "empty"}
                     THEN r.resp.body ELSE "None",
          token |-> token, sent |-> r.sent,
          rejected_too_long |-> r.next = "raise" /\ r.resp.kind = "status"
                                /\ r.resp.text \in TooLongTexts,
          exhausted |-> r.next = "raise" /\ r.resp \in TransientResponses]

Min(a, b) == IF a <= b THEN a ELSE b

\* The per-token calls of one get_market_prices_all_outcomes, in zip order,
\* up to and including the first one that raises.
RECURSIVE TokenCalls(_, _, _, _)
TokenCalls(token_ids, interval, scripts, i) ==
    IF i > Len(token_ids) \/ i > Len(scripts)
    THEN <<>>
    ELSE LET c == ClobGetPriceHistory(token_ids[i], interval, scripts[i]) IN
         IF c.kind = "raise"
         THEN <<c>>
         ELSE <<c>> \o TokenCalls(token_ids, interval, scripts, i + 1)

\* results[outcome] = history for every call whose history is truthy.  A
\* PriceHistory is a dataclass without __bool__ or __len__: every instance
\* is truthy, an empty series included; only None is dropped.
HistoryTruthy(c) == c.series # "None"

ResultsDict(calls, outcomes) ==
    LET n    == Min(Len(calls), Len(outcomes))
        keys == { outcomes[i] : i \in { j \in 1..n : HistoryTruthy(calls[j]) } }
        last(o) == CHOOSE i \in 1..n :
                      /\ outcomes[i] = o /\ HistoryTruthy(calls[i])
                      /\ \A j \in 1..n :
                            (outcomes[j] = o /\ HistoryTruthy(calls[j])) => j <= i
    IN  [o \in keys |-> calls[last(o)].series]

\* PolymarketAPI.get_price_history(market, interval, start_ts, end_ts):
\* delegates to get_market_prices_all_outcomes.  isNone is never set here:
\* the call returns a dict or raises.
ApiGetPriceHistory(market, interval, scripts) ==
    LET calls == TokenCalls(market.token_ids, interval, scripts, 1)
        n     == Len(calls)
    IN  IF n > 0 /\ calls[n].kind = "raise"
        THEN [kind |-> "raise", exc |-> calls[n].exc, value |-> <<>>, upstream |-> calls]
        ELSE [kind |-> "return", exc |-> NoExc,
              value |-> ResultsDict(calls, market.outcomes), upstream |-> calls]

----------------------------------------------------------------------------
(* PolymarketExtractor._fetch_price_history_with_retry                     *)

FetchMarkets ==
    { [slug |-> "m1", token_ids |-> <<"t1", "t2">>, outcomes |-> <<"Yes", "No">>],
      [slug |-> "m2", token_ids |-> <<"t1">>, outcomes |-> <<"Yes">>] }

\* A valid interval, an invalid one, and an invalid one whose text carries
\* the phrase the loop looks for.
FetchIntervals == {"1d", "2d", "interval is too long"}

Timestamps == 0..MaxTs

\* What a test double standing for self.api.get_price_history may do
\* (tests/integration/test_extractor.py patches it with side effects).
DoubleOutcomes ==
    { [kind |-> "return", exc |-> NoExc, value |-> [o \in {"Yes"} |-> "points"],
       upstream |-> <<>>],
      [kind |-> "return", exc |-> NoExc, value |-> <<>>, upstream |-> <<>>],
      [kind |-> "raise", exc |-> [type |-> "Exception", msg |-> <<TooLongText>>],
       value |-> <<>>, upstream |-> <<>>],
      [kind |-> "raise", exc |-> [type |-> "Exception", msg |-> <<"boom">>],
       value |-> <<>>, upstream |-> <<>>] }

\* `if price_histories:` on a dict.
DictTruthy(d) == DOMAIN d # {}

CanNarrow_NoCeiling(exc, rc) == MsgTooLong(exc)

\* `"interval is too long" in str(e) and retry_count < MAX_RETRIES - 1`
CanNarrow(exc, rc) == MsgTooLong(exc) /\ rc < MAX_RETRIES - 1

\* time_span = current_end - current_start; new_span = time_span // 2;
\* current_start = current_end - new_span      (// is floor division, as \div)
new_span(cs, ce) == (ce - cs) \div 2

NarrowedStart_FromStart(cs, ce) == cs + new_span(cs, ce)

NarrowedStart(cs, ce) == ce - new_span(cs, ce)

NarrowedEnd_Moved(cs, ce) == cs + new_span(cs, ce)

\* current_end is not assigned by the narrowing.
NarrowedEnd(cs, ce) == ce

FetchResult(kind, isNone, value, exc) ==
    [kind |-> kind, isNone |-> isNone, value |-> value, exc |-> exc]

NoResult == FetchResult("running", FALSE, <<>>, NoExc)

FIdle ==
    /\ f_pc = "idle" /\ f_mode = "real" /\ f_market = [slug |-> "", token_ids |-> <<>>, outcomes |-> <<>>]
    /\ f_interval = "" /\ f_start = 0 /\ f_end = 0 /\ retry_count = 0
    /\ current_start = 0 /\ current_end = 0 /\ f_log = <<>> /\ f_result = NoResult

\* Entry: retry_count = 0; current_start = start_ts; current_end = end_ts.
FetchCall(mode, market, interval, start_ts, end_ts) ==
    /\ comp = "fetch"
    /\ f_pc = "idle"
    /\ f_pc' = "loop"
    /\ f_mode' = mode
    /\ f_market' = market
    /\ f_interval' = interval
    /\ f_start' = start_ts
    /\ f_end' = end_ts
    /\ retry_count' = 0
    /\ current_start' = start_ts
    /\ current_end' = end_ts
    /\ UNCHANGED <<f_log, f_result>>
    /\ FrameFetch

\* One iteration of `while retry_count < MAX_RETRIES` in which
\* self.api.get_price_history(market, interval, current_start, current_end)
\* ended as `o`.
LoopIteration(o) ==
    /\ f_log' = Append(f_log, [market |-> f_market.slug, interval |-> f_interval,
                              start_ts |-> current_start, end_ts |-> current_end,
                              kind |-> o.kind, exc |-> o.exc, value |-> o.value,
                              upstream |-> o.upstream])
    /\ IF o.kind = "return"
       THEN /\ f_pc' = "done"
            /\ f_result' = IF DictTruthy(o.value)
                           THEN FetchResult("return", FALSE, o.value, NoExc)
                           ELSE FetchResult("return", TRUE, <<>>, NoExc)
            /\ UNCHANGED <<retry_count, current_start, current_end>>
       ELSE IF CanNarrow(o.exc, retry_count)
       THEN /\ current_start' = NarrowedStart(current_start, current_end)
            /\ current_end' = NarrowedEnd(current_start, current_end)
            /\ retry_count' = retry_count + 1
            /\ UNCHANGED <<f_pc, f_result>>
       ELSE /\ f_pc' = "done"
            /\ f_result' = FetchResult("raise", FALSE, <<>>, o.exc)
            /\ UNCHANGED <<retry_count, current_start, current_end>>
    /\ UNCHANGED <<f_mode, f_market, f_interval, f_start, f_end>>
    /\ FrameFetch

\* An iteration against the real PolymarketAPI: the upstream answers the
\* requests made for the i-th token with scripts[i].
FetchAttemptReal(scripts) ==
    /\ comp = "fetch"
    /\ f_pc = "loop"
    /\ f_mode = "real"
    /\ retry_count < MAX_RETRIES
    /\ Len(scripts) = Len(f_market.token_ids)
    /\ LoopIteration(ApiGetPriceHistory(f_market, f_interval, scripts))

\* An iteration against a test double.
FetchAttemptDouble(o) ==
    /\ comp = "fetch"
    /\ f_pc = "loop"
    /\ f_mode = "double"
    /\ retry_count < MAX_RETRIES
    /\ LoopIteration(o)

ScriptSeqs == { <<a>> : a \in Scripts } \cup { <<a, b>> : a \in Scripts, b \in Scripts }

NextFetch ==
    \/ \E mode \in {"real", "double"}, market \in FetchMarkets,
          interval \in FetchIntervals, s \in Timestamps, e \in Timestamps :
            FetchCall(mode, market, interval, s, e)
    \/ \E scripts \in ScriptSeqs : FetchAttemptReal(scripts)
    \/ \E o \in DoubleOutcomes : FetchAttemptDouble(o)

----------------------------------------------------------------------------
(* PolymarketAPI.get_market, CLOBAPIClient.find_market_by_slug,            *)
(* CLOBAPIClient.get_markets, GammaAPIClient.get_market_by_slug            *)
(*                                                                         *)
(* A slug is a sequence of characters.  A Market is [slug, source]; the    *)
(* source records which from_*_response built it.  Market objects are      *)
(* dataclass instances, hence always truthy; NoMarket stands for None.     *)

NoMarket == [slug |-> <<>>, source |-> "None"]

ClobMarket(slug)  == [slug |-> slug, source |-> "clob"]
GammaMarket(slug) == [slug |-> slug, source |-> "gamma"]

QuerySlugs  == { <<"a">>, <<"b">> }
ListedSlugs == { <<"a">>, <<"a", "b">>, <<"c">> }

\* `needle in hay` for strings.
Contains(hay, needle) ==
    \E i \in 1..(Len(hay) + 1) :
        /\ i + Len(needle) - 1 <= Len(hay)
        /\ SubSeq(hay, i, i + Len(needle) - 1) = needle

SlugLists ==
    {<<>>} \cup { <<x>> : x \in ListedSlugs }
           \cup { <<x, y>> : x \in ListedSlugs, y \in ListedSlugs }

\* What CLOBAPIClient.get_markets may return: {} when the request failed
\* (ok = FALSE; a body without 'data' is treated alike by the caller), else
\* a page with its market_slug values and its next_cursor ("None": absent).
ClobCursors == {"None", "", "LTE=", "MQ=="}
ClobPages ==
    { [ok |-> FALSE, data |-> <<>>, next_cursor |-> "None"] }
    \cup [ok : {TRUE}, data : SlugLists, next_cursor : ClobCursors]

\* `if market:` / `if not market:` on an Optional[Market].
MarketFound_Always(m) == TRUE

MarketFound(m) == m # NoMarket

\* The first entry of a page whose market_slug equals the slug.
RECURSIVE FirstEqual(_, _, _)
FirstEqual(data, slug, i) ==
    IF i > Len(data) THEN NoMarket
    ELSE IF data[i] = slug THEN ClobMarket(data[i])
    ELSE FirstEqual(data, slug, i + 1)

\* `if not next_cursor or next_cursor == 'LTE='`
CursorEnds(c) == c = "None" \/ c = "" \/ c = "LTE="

\* The first listed market whose slug equals or contains the slug.
RECURSIVE FirstMatching(_, _, _)
RECURSIVE FirstMatching_Equal(_, _, _)
FirstMatching_Equal(markets, slug, i) ==
    IF i > Len(markets) THEN NoMarket
    ELSE IF markets[i] = slug THEN GammaMarket(markets[i])
    ELSE FirstMatching_Equal(markets, slug, i + 1)

FirstMatching(markets, slug, i) ==
    IF i > Len(markets) THEN NoMarket
    ELSE IF markets[i] = slug \/ Contains(markets[i], slug) THEN GammaMarket(markets[i])
    ELSE FirstMatching(markets, slug, i + 1)

\* A response to a Gamma GET /markets: a failure (exhausted retries, an
\* error status, a body that cannot be used) or the listed slugs.
GammaResponses == { [ok |-> FALSE, data |-> <<>>] } \cup [ok : {TRUE}, data : SlugLists]

RIdle ==
    /\ r_pc = "idle" /\ r_slug = <<>> /\ next_cursor = "None" /\ r_calls = <<>>
    /\ r_clob = NoMarket /\ r_gamma = NoMarket /\ r_result = NoMarket
    /\ r_answers = <<>>

Call(client, op, arg) == [client |-> client, op |-> op, arg |-> arg]

\* get_market(slug): entry, up to the call of find_market_by_slug.
GetMarketCall(slug) ==
    /\ comp = "resolve"
    /\ r_pc = "idle"
    /\ r_pc' = "clob"
    /\ r_slug' = slug
    /\ next_cursor' = "None"
    /\ UNCHANGED <<r_calls, r_clob, r_gamma, r_result, r_answers>>
    /\ FrameResolve

\* The end of find_market_by_slug with `market`, and what get_market does
\* with it: return it, or fall back to the Gamma client.
AfterClob(market) ==
    /\ r_clob' = market
    /\ IF MarketFound(market)
       THEN r_pc' = "done" /\ r_result' = market
       ELSE r_pc' = "gamma_query" /\ UNCHANGED r_result

\* One iteration of find_market_by_slug's `while True`: get_markets(next_cursor)
\* returned `page`.
ClobScanPage(page) ==
    /\ comp = "resolve"
    /\ r_pc = "clob"
    /\ Len(r_calls) < MaxPages
    /\ r_calls' = Append(r_calls, Call("clob", "get_markets", next_cursor))
    /\ LET hit == FirstEqual(page.data, r_slug, 1) IN
       IF ~page.ok
       THEN AfterClob(NoMarket) /\ UNCHANGED next_cursor
       ELSE IF hit # NoMarket
       THEN AfterClob(hit) /\ UNCHANGED next_cursor
       ELSE /\ next_cursor' = page.next_cursor
            /\ IF CursorEnds(page.next_cursor)
               THEN AfterClob(NoMarket)
               ELSE UNCHANGED <<r_pc, r_clob, r_result>>
    /\ UNCHANGED <<r_slug, r_gamma, r_answers>>
    /\ FrameResolve

\* The end of gamma get_market_by_slug with `market`, and get_market's return.
AfterGamma(market) ==
    /\ r_gamma' = market
    /\ r_pc' = "done"
    /\ r_result' = IF MarketFound(market) THEN market ELSE NoMarket

\* gamma get_market_by_slug: the query GET /markets?slug=... answered `resp`.
\* A failure raises inside the try block and the method returns None.
GammaSlugQuery(resp) ==
    /\ comp = "resolve"
    /\ r_pc = "gamma_query"
    /\ r_calls' = Append(r_calls, Call("gamma", "slug_query", "None"))
    /\ r_answers' = Append(r_answers, resp)
    /\ IF ~resp.ok
       THEN AfterGamma(NoMarket)
       ELSE IF Len(resp.data) > 0
       THEN AfterGamma(GammaMarket(resp.data[1]))
       ELSE r_pc' = "gamma_scan" /\ UNCHANGED <<r_gamma, r_result>>
    /\ UNCHANGED <<r_slug, next_cursor, r_clob>>
    /\ FrameResolve

\* gamma get_market_by_slug: the scan get_markets(limit=1000, active=True)
\* answered `resp`; get_markets turns a failure into [].
GammaScan(resp) ==
    /\ comp = "resolve"
    /\ r_pc = "gamma_scan"
    /\ r_calls' = Append(r_calls, Call("gamma", "scan", "limit=1000&active=True"))
    /\ r_answers' = Append(r_answers, resp)
    /\ AfterGamma(FirstMatching(IF resp.ok THEN resp.data ELSE <<>>, r_slug, 1))
    /\ UNCHANGED <<r_slug, next_cursor, r_clob>>
    /\ FrameResolve

NextResolve ==
    \/ \E slug \in QuerySlugs : GetMarketCall(slug)
    \/ \E page \in ClobPages : ClobScanPage(page)
    \/ \E resp \in GammaResponses : GammaSlugQuery(resp)
    \/ \E resp \in GammaResponses : GammaScan(resp)

----------------------------------------------------------------------------
(* DataProcessor.merge_price_histories, merge_event_price_histories,       *)
(* stream_event_to_csv, iterate_event_rows; utils.get_column_prefix        *)
(*                                                                         *)
(* A text is a sequence of characters.  A timestamp is an instant 1..MaxT. *)
(* A price is a count of 0.00001.  A cell is a price or is missing (NaN in *)
(* a DataFrame, '' in a CSV row).  Dicts are sequences of entries in       *)
(* insertion order.                                                        *)

Val(p)  == [has |-> TRUE, v |-> p]
Missing == [has |-> FALSE, v |-> 0]

PRICE_PRECISION == 4

Pow10(n) == IF n <= 0 THEN 1 ELSE 10 ^ n

\* round(value, ndigits) for a price that is not half way between two results.
Round(p, ndigits) ==
    LET q == Pow10(5 - ndigits) IN ((2 * p + q) \div (2 * q)) * q

\* datetime.isoformat()
isoformat(t) == ToString(t)

PriceValues == {50000, 12347}
PricePoints == [t : 1..MaxT, p : PriceValues]

\* PriceHistory.price_points: in non-decreasing timestamp order, ties allowed.
PriceSeries ==
    { ps \in UNION { [1..n -> PricePoints] : n \in 0..MaxPts } :
        \A i \in 1..(Len(ps) - 1) : ps[i].t <= ps[i + 1].t }

Yes == <<"Y", "e", "s">>
No  == <<"N", "o">>

LowerChar(c) ==
    CASE c = "Y" -> "y" [] c = "N" -> "n" [] c = "B" -> "b" [] OTHER -> c

\* str.lower()
Lower(s) == [i \in DOMAIN s |-> LowerChar(s[i])]

\* str.replace(' ', '_')
ReplaceSpaces(s) == [i \in DOMAIN s |-> IF s[i] = " " THEN "_" ELSE s[i]]

\* str.split('-')
RECURSIVE Split(_, _, _)
Split(s, i, cur) ==
    IF i > Len(s) THEN <<cur>>
    ELSE IF s[i] = "-" THEN <<cur>> \o Split(s, i + 1, <<>>)
    ELSE Split(s, i + 1, Append(cur, s[i]))

Will == <<"w", "i", "l", "l">>

\* list.index: the first position of w in parts, 0 when absent.
IndexOf(parts, w) ==
    IF \E i \in DOMAIN parts : parts[i] = w
    THEN CHOOSE i \in DOMAIN parts : parts[i] = w /\ \A j \in 1..(i - 1) : parts[j] # w
    ELSE 0

\* s[:n]
Take(s, n) == SubSeq(s, 1, IF n < Len(s) THEN n ELSE Len(s))

get_column_prefix(market, market_slug) ==
    LET parts == Split(market_slug, 1, <<>>)
        idx   == IndexOf(parts, Will)
    IN IF market.group_item_title # <<>>
       THEN ReplaceSpaces(Lower(market.group_item_title))
       ELSE IF idx > 0 /\ idx + 1 <= Len(parts)
       THEN parts[idx + 1]
       ELSE Take(market_slug, 20)

\* f'{outcome}_price'
PriceColumn(outcome) == outcome \o <<"_", "p", "r", "i", "c", "e">>

\* f'{prefix}_{outcome.lower()}'
EventColumn(prefix, outcome) == prefix \o <<"_">> \o Lower(outcome)

\* ---- pandas: a DataFrame indexed by timestamp is [cols, rows], each row
\* [t, cells] with a cell per column.

\* pd.DataFrame([...]).set_index('timestamp') of one series.
SeriesFrame(col, points) ==
    [cols |-> {col},
     rows |-> [i \in DOMAIN points |->
                 [t |-> points[i].t, cells |-> [c \in {col} |-> Val(points[i].p)]]]]

RECURSIVE SortedSeq(_)
SortedSeq(S) ==
    IF S = {} THEN <<>>
    ELSE LET lo == CHOOSE x \in S : \A y \in S : x <= y
         IN <<lo>> \o SortedSeq(S \ {lo})

\* The rows of frame.rows whose index is k, in order.
RECURSIVE RowsAt(_, _, _)
RowsAt(rows, k, i) ==
    IF i > Len(rows) THEN <<>>
    ELSE IF rows[i].t = k THEN <<rows[i]>> \o RowsAt(rows, k, i + 1)
    ELSE RowsAt(rows, k, i + 1)

Merged(f, g) == [c \in (DOMAIN f) \cup (DOMAIN g) |-> IF c \in DOMAIN f THEN f[c] ELSE g[c]]

AllMissing(cols) == [c \in cols |-> Missing]

\* The rows of L.join(R, how='outer') for index value k: every pairing of
\* a row of L with a row of R at k; a side without k contributes NaN.
JoinAt(L, R, k) ==
    LET ls == RowsAt(L.rows, k, 1)
        rs == RowsAt(R.rows, k, 1)
    IN IF ls = <<>>
       THEN [j \in DOMAIN rs |-> [t |-> k, cells |-> Merged(AllMissing(L.cols), rs[j].cells)]]
       ELSE IF rs = <<>>
       THEN [i \in DOMAIN ls |-> [t |-> k, cells |-> Merged(ls[i].cells, AllMissing(R.cols))]]
       ELSE [n \in 1..(Len(ls) * Len(rs)) |->
               [t |-> k,
                cells |-> Merged(ls[((n - 1) \div Len(rs)) + 1].cells,
                                 rs[((n - 1) % Len(rs)) + 1].cells)]]

RECURSIVE JoinKeys(_, _, _, _)
JoinKeys(L, R, keys, i) ==
    IF i > Len(keys) THEN <<>>
    ELSE JoinAt(L, R, keys[i]) \o JoinKeys(L, R, keys, i + 1)

\* DataFrame.join(other, how='outer'): the union of the two indexes, sorted;
\* overlapping column names raise ValueError.
OuterJoin(L, R) ==
    IF L.cols \cap R.cols # {}
    THEN [raised |-> TRUE, cols |-> {}, rows |-> <<>>]
    ELSE [raised |-> FALSE,
          cols   |-> L.cols \cup R.cols,
          rows   |-> JoinKeys(L, R,
                       SortedSeq({ L.rows[i].t : i \in DOMAIN L.rows }
                                 \cup { R.rows[i].t : i \in DOMAIN R.rows }), 1)]

\* result = dfs[0]; for df in dfs[1:]: result = result.join(df, how='outer')
RECURSIVE JoinAll(_, _, _)
JoinAll(result, dfs, i) ==
    IF i > Len(dfs) \/ result.raised THEN result
    ELSE JoinAll(OuterJoin(result, dfs[i]), dfs, i + 1)

\* DataFrame.ffill(): a NaN takes the value above it in its column.
RECURSIVE ffill(_, _, _)
ffill(rows, i, above) ==
    IF i > Len(rows) THEN <<>>
    ELSE LET cells == [c \in DOMAIN rows[i].cells |->
                         IF rows[i].cells[c].has THEN rows[i].cells[c]
                         ELSE IF c \in DOMAIN above THEN above[c] ELSE Missing]
         IN <<[t |-> rows[i].t, cells |-> cells]>> \o ffill(rows, i + 1, cells)

NotRun     == [run |-> FALSE, raised |-> FALSE, cols |-> {}, rows |-> <<>>]
EmptyFrame == [run |-> TRUE, raised |-> FALSE, cols |-> {}, rows |-> <<>>]
DataProcessingError == [run |-> TRUE, raised |-> TRUE, cols |-> {}, rows |-> <<>>]

\* The tail shared by the two in-memory merges, from `if not dfs`.
MergeFrames(dfs) ==
    IF dfs = <<>> THEN EmptyFrame
    ELSE LET joined == JoinAll([raised |-> FALSE, cols |-> dfs[1].cols, rows |-> dfs[1].rows],
                               dfs, 2)
         IN IF joined.raised THEN DataProcessingError
            ELSE [run |-> TRUE, raised |-> FALSE, cols |-> joined.cols,
                  rows |-> ffill(joined.rows, 1, <<>>)]

\* The frames of the [col, points] entries that have price points, in order.
RECURSIVE OutcomeFrames(_, _)
OutcomeFrames(entries, i) ==
    IF i > Len(entries) THEN <<>>
    ELSE (IF entries[i].points # <<>>
          THEN <<SeriesFrame(entries[i].col, entries[i].points)>>
          ELSE <<>>)
         \o OutcomeFrames(entries, i + 1)

merge_price_histories(histories) ==
    IF histories = <<>> THEN EmptyFrame
    ELSE MergeFrames(OutcomeFrames(
             [i \in DOMAIN histories |->
                [col |-> PriceColumn(histories[i].outcome), points |-> histories[i].points]], 1))

\* The [col, points] entries of every market of the event, markets and
\* outcomes in dict order.
RECURSIVE EventEntries(_, _)
EventEntries(event_data, i) ==
    IF i > Len(event_data) THEN <<>>
    ELSE LET md     == event_data[i]
             prefix == get_column_prefix(md.market, md.slug)
         IN [j \in DOMAIN md.price_histories |->
               [col    |-> EventColumn(prefix, md.price_histories[j].outcome),
                points |-> md.price_histories[j].points]]
            \o EventEntries(event_data, i + 1)

merge_event_price_histories(event_data) ==
    IF event_data = <<>> THEN EmptyFrame
    ELSE MergeFrames(OutcomeFrames(EventEntries(event_data, 1), 1))

\* ---- streaming

\* Every price point of the event as [t, col, p], in the order the nested
\* loops visit them.
RECURSIVE EntryPoints(_, _)
EntryPoints(entries, i) ==
    IF i > Len(entries) THEN <<>>
    ELSE [j \in DOMAIN entries[i].points |->
            [t |-> entries[i].points[j].t, col |-> entries[i].col, p |-> entries[i].points[j].p]]
         \o EntryPoints(entries, i + 1)

\* timestamp_data[point.timestamp][column_name] = point.price, over all points:
\* a later assignment to the same timestamp and column replaces the earlier.
timestamp_data(points) ==
    [t \in { points[i].t : i \in DOMAIN points } |->
       LET at == { i \in DOMAIN points : points[i].t = t }
       IN [c \in { points[i].col : i \in at } |->
             LET last == CHOOSE i \in at :
                            /\ points[i].col = c
                            /\ \A j \in at : points[j].col = c => j <= i
             IN points[last].p]]

\* The data rows of stream_event_to_csv, from `prev_row = {}`.
RECURSIVE CsvRows(_, _, _, _, _)
CsvRows(data, timestamps, columns, i, prev_row) ==
    IF i > Len(timestamps) THEN <<>>
    ELSE LET row_data == data[timestamps[i]]
             prev     == [c \in (DOMAIN prev_row) \cup (DOMAIN row_data) |->
                            IF c \in DOMAIN row_data THEN row_data[c] ELSE prev_row[c]]
             cell(c)  == IF c \in DOMAIN prev
                         THEN Val(Round(prev[c], PRICE_PRECISION))
                         ELSE Missing
         IN <<[t |-> isoformat(timestamps[i]), cells |-> [c \in columns |-> cell(c)]]>>
            \o CsvRows(data, timestamps, columns, i + 1, prev)

stream_event_to_csv(event_data) ==
    LET data    == timestamp_data(EntryPoints(EventEntries(event_data, 1), 1))
        columns == UNION { DOMAIN data[t] : t \in DOMAIN data }
    IN [run |-> TRUE, raised |-> FALSE, cols |-> columns,
        rows |-> CsvRows(data, SortedSeq(DOMAIN data), columns, 1, <<>>)]

\* The rows iterate_event_rows yields, from `prev_values = {}`; a row has
\* no key for a column not seen yet.
RECURSIVE YieldedRows(_, _, _, _)
YieldedRows(data, timestamps, i, prev_values) ==
    IF i > Len(timestamps) THEN <<>>
    ELSE LET row == data[timestamps[i]]
             current_row == [c \in (DOMAIN prev_values) \cup (DOMAIN row) |->
                               IF c \in DOMAIN row THEN row[c] ELSE prev_values[c]]
         IN <<[t |-> timestamps[i], cells |-> [c \in DOMAIN current_row |-> Val(current_row[c])]]>>
            \o YieldedRows(data, timestamps, i + 1, current_row)

iterate_event_rows(event_data) ==
    LET data == timestamp_data(EntryPoints(EventEntries(event_data, 1), 1))
    IN [run |-> TRUE, raised |-> FALSE,
        cols |-> UNION { DOMAIN data[t] : t \in DOMAIN data },
        rows |-> YieldedRows(data, SortedSeq(DOMAIN data), 1, <<>>)]

\* ---- inputs

History(outcome, points) == [outcome |-> outcome, points |-> points]

HistoryDicts ==
    {<<>>}
    \cup { <<History(Yes, a)>> : a \in PriceSeries }
    \cup { <<History(Yes, a), History(No, b)>> : a \in PriceSeries, b \in PriceSeries }

Market(slug, title) == [slug |-> slug, group_item_title |-> title]

\* "will-a-win" without a group item title; "b-win" titled "B x";
\* "will-a-lose" without a title.
MarketA == Market(<<"w","i","l","l","-","a","-","w","i","n">>, <<>>)
MarketB == Market(<<"b","-","w","i","n">>, <<"B", " ", "x">>)
MarketC == Market(<<"w","i","l","l","-","a","-","l","o","s","e">>, <<>>)

MarketData(market, price_histories) ==
    [slug |-> market.slug, market |-> market, price_histories |-> price_histories]

ShortSeries == { ps \in PriceSeries : Len(ps) <= 1 }

EventInputs ==
    {<<>>}
    \cup { <<MarketData(MarketA, <<History(Yes, a), History(No, b)>>)>> :
             a \in PriceSeries, b \in PriceSeries }
    \cup { <<MarketData(MarketA, <<History(Yes, a)>>), MarketData(m, <<History(Yes, c)>>)>> :
             a \in PriceSeries, c \in PriceSeries, m \in {MarketB, MarketC} }
    \cup { <<MarketData(MarketA, <<History(Yes, a), History(No, b)>>),
             MarketData(m, <<History(Yes, c), History(No, d)>>)>> :
             a \in ShortSeries, b \in ShortSeries, c \in ShortSeries, d \in ShortSeries,
             m \in {MarketB, MarketC} }

MIdle ==
    /\ m_pc = "idle" /\ m_histories = <<>> /\ m_event = <<>>
    /\ m_frame = NotRun /\ m_mem = NotRun /\ m_csv = NotRun /\ m_iter = NotRun

MergePriceHistories(histories) ==
    /\ comp = "merge"
    /\ m_pc = "idle"
    /\ m_pc' = "single"
    /\ m_histories' = histories
    /\ m_frame' = merge_price_histories(histories)
    /\ UNCHANGED <<m_event, m_mem, m_csv, m_iter>>
    /\ FrameMerge

\* An event has been extracted into EventHistoricalData.market_data.
EventExtracted(event_data) ==
    /\ comp = "merge"
    /\ m_pc = "idle"
    /\ m_pc' = "event"
    /\ m_event' = event_data
    /\ UNCHANGED <<m_histories, m_frame, m_mem, m_csv, m_iter>>
    /\ FrameMerge

MergeEventPriceHistories ==
    /\ comp = "merge"
    /\ m_pc = "event"
    /\ ~m_mem.run
    /\ m_mem' = merge_event_price_histories(m_event)
    /\ UNCHANGED <<m_pc, m_histories, m_event, m_frame, m_csv, m_iter>>
    /\ FrameMerge

StreamEventToCsv ==
    /\ comp = "merge"
    /\ m_pc = "event"
    /\ ~m_csv.run
    /\ m_csv' = stream_event_to_csv(m_event)
    /\ UNCHANGED <<m_pc, m_histories, m_event, m_frame, m_mem, m_iter>>
    /\ FrameMerge

IterateEventRows ==
    /\ comp = "merge"
    /\ m_pc = "event"
    /\ ~m_iter.run
    /\ m_iter' = iterate_event_rows(m_event)
    /\ UNCHANGED <<m_pc, m_histories, m_event, m_frame, m_mem, m_csv>>
    /\ FrameMerge

NextMerge ==
    \/ \E histories \in HistoryDicts : MergePriceHistories(histories)
    \/ \E event_data \in EventInputs : EventExtracted(event_data)
    \/ MergeEventPriceHistories
    \/ StreamEventToCsv
    \/ IterateEventRows

----------------------------------------------------------------------------
(* PolymarketExtractor.extract_all_event_markets and _extract_markets      *)
(*                                                                         *)
(* An event market is [slug, token_ids, neg_risk, neg_risk_market_id]; the *)
(* loop refers to a market by its position in event.markets.               *)

SlugNames == <<"s1", "s2", "s3", "s4">>

\* Up to renaming of slugs, the k-th market has one of the first k slugs.
SlugsAt(k) == { SlugNames[j] : j \in 1..(IF k < Len(SlugNames) THEN k ELSE Len(SlugNames)) }

\* The token lists and negRisk fields of: a tradeable market, a negRisk
\* option with one token listed, a negRisk placeholder, a market without
\* tokens outside any negRisk group.
MarketShapes ==
    { [token_ids |-> <<"t1", "t2">>, neg_risk |-> FALSE, neg_risk_market_id |-> "None"],
      [token_ids |-> <<"t1", "">>,   neg_risk |-> TRUE,  neg_risk_market_id |-> "grp"],
      [token_ids |-> <<"", "">>,     neg_risk |-> TRUE,  neg_risk_market_id |-> "grp"],
      [token_ids |-> <<>>,           neg_risk |-> TRUE,  neg_risk_market_id |-> "None"] }

EventMarket(slug, shape) ==
    [slug |-> slug, token_ids |-> shape.token_ids,
     neg_risk |-> shape.neg_risk, neg_risk_market_id |-> shape.neg_risk_market_id]

EventMarketLists ==
    UNION { { ms \in [1..n -> { EventMarket(sl, sh) : sl \in SlugsAt(n), sh \in MarketShapes }] :
                \A k \in 1..n : ms[k].slug \in SlugsAt(k) } : n \in 0..MaxMarkets }

\* `not market.token_ids or all(not tid for tid in market.token_ids)`
NoValidTokens_EmptyListOnly(market) == market.token_ids = <<>>

NoValidTokens(market) ==
    market.token_ids = <<>> \/ \A i \in DOMAIN market.token_ids : market.token_ids[i] = ""

\* Market.is_inactive_negrisk_option
is_inactive_negrisk_option_AnyTokenEmpty(market) ==
    /\ market.neg_risk
    /\ market.neg_risk_market_id \notin {"None", ""}
    /\ (market.token_ids = <<>> \/ \E i \in DOMAIN market.token_ids : market.token_ids[i] = "")

is_inactive_negrisk_option(market) ==
    /\ market.neg_risk
    /\ market.neg_risk_market_id \notin {"None", ""}
    /\ (market.token_ids = <<>> \/ \A i \in DOMAIN market.token_ids : market.token_ids[i] = "")

SkipReason(market) ==
    IF is_inactive_negrisk_option(market)
    THEN "Inactive negRisk option (placeholder)"
    ELSE "No tradeable tokens available"

\* What one call of _fetch_price_history_with_retry can do: return a
\* non-empty dict of outcome -> series, return None, or raise.
FetchOutcomes ==
    { [kind |-> "return", isNone |-> FALSE, value |-> [o \in {"Yes", "No"} |-> "points"]],
      [kind |-> "return", isNone |-> FALSE, value |-> [o \in {"Yes"} |-> "empty"]],
      [kind |-> "return", isNone |-> TRUE,  value |-> <<>>],
      [kind |-> "raise",  isNone |-> FALSE, value |-> <<>>] }

\* MarketHistoricalData.has_data
MarketHasData(md) == \E o \in DOMAIN md.price_histories : md.price_histories[o] = "points"

\* EventHistoricalData.total_markets
total_markets(md) == Cardinality(DOMAIN md)

\* EventHistoricalData.has_data
EventHasData(md) == \E slug \in DOMAIN md : MarketHasData(md[slug])

NoEventResult == [returned |-> FALSE, isNone |-> FALSE, total_markets |-> 0]

EIdle ==
    /\ e_pc = "idle" /\ e_markets = <<>> /\ e_i = 0 /\ market_data = <<>>
    /\ successful = 0 /\ failed = 0 /\ e_fetches = <<>> /\ e_skips = <<>>
    /\ e_result = NoEventResult

\* extract_all_event_markets up to the loop: the event was fetched with
\* `markets`; an event without markets returns None at once.
ExtractAllEventMarketsCall(markets) ==
    /\ comp = "event"
    /\ e_pc = "idle"
    /\ e_markets' = markets
    /\ IF markets = <<>>
       THEN /\ e_pc' = "done"
            /\ e_result' = [returned |-> TRUE, isNone |-> TRUE, total_markets |-> 0]
       ELSE /\ e_pc' = "loop"
            /\ UNCHANGED e_result
    /\ UNCHANGED <<e_i, market_data, successful, failed, e_fetches, e_skips>>
    /\ FrameEvent

\* One turn of the loop of _extract_markets on a market without valid tokens.
SkipMarket_NotCounted ==
    /\ comp = "event"
    /\ e_pc = "loop"
    /\ e_i < Len(e_markets)
    /\ LET pos == e_i + 1 IN
       /\ NoValidTokens(e_markets[pos])
       /\ e_skips' = Append(e_skips, [pos |-> pos, reason |-> SkipReason(e_markets[pos])])
       /\ e_i' = pos
    /\ UNCHANGED <<e_pc, e_markets, market_data, successful, failed, e_fetches, e_result>>
    /\ FrameEvent

SkipMarket ==
    /\ comp = "event"
    /\ e_pc = "loop"
    /\ e_i < Len(e_markets)
    /\ LET pos == e_i + 1 IN
       /\ NoValidTokens(e_markets[pos])
       /\ e_skips' = Append(e_skips, [pos |-> pos, reason |-> SkipReason(e_markets[pos])])
       /\ failed' = failed + 1
       /\ e_i' = pos
    /\ UNCHANGED <<e_pc, e_markets, market_data, successful, e_fetches, e_result>>
    /\ FrameEvent

\* One turn of the loop in which a fetch that raises or returns nothing
\* ends the extraction.
FetchMarket_AbortOnFailure(outcome) ==
    /\ comp = "event"
    /\ e_pc = "loop"
    /\ e_i < Len(e_markets)
    /\ LET pos    == e_i + 1
           market == e_markets[pos]
           stored == [pos |-> pos, price_histories |-> outcome.value]
       IN
       /\ ~NoValidTokens(market)
       /\ e_fetches' = Append(e_fetches, [pos |-> pos, outcome |-> outcome])
       /\ IF outcome.kind = "return" /\ ~outcome.isNone
          THEN /\ market_data' =
                     [sl \in (DOMAIN market_data) \cup {market.slug} |->
                        IF sl = market.slug THEN stored ELSE market_data[sl]]
               /\ successful' = successful + 1
               /\ e_i' = pos
               /\ UNCHANGED <<failed, e_pc, e_result>>
          ELSE /\ failed' = failed + 1
               /\ e_i' = pos
               /\ e_pc' = "done"
               /\ e_result' = [returned |-> TRUE, isNone |-> TRUE, total_markets |-> 0]
               /\ UNCHANGED <<market_data, successful>>
    /\ UNCHANGED <<e_markets, e_skips>>
    /\ FrameEvent

\* One turn of the loop on a market with a valid token, the fetch ending
\* in `outcome`.
FetchMarket(outcome) ==
    /\ comp = "event"
    /\ e_pc = "loop"
    /\ e_i < Len(e_markets)
    /\ LET pos    == e_i + 1
           market == e_markets[pos]
           stored == [pos |-> pos, price_histories |-> outcome.value]
       IN
       /\ ~NoValidTokens(market)
       /\ e_fetches' = Append(e_fetches, [pos |-> pos, outcome |-> outcome])
       /\ IF outcome.kind = "return" /\ ~outcome.isNone
          THEN /\ market_data' =
                     [sl \in (DOMAIN market_data) \cup {market.slug} |->
                        IF sl = market.slug THEN stored ELSE market_data[sl]]
               /\ successful' = successful + 1
               /\ UNCHANGED failed
          ELSE /\ failed' = failed + 1
               /\ UNCHANGED <<market_data, successful>>
       /\ e_i' = pos
    /\ UNCHANGED <<e_pc, e_markets, e_skips, e_result>>
    /\ FrameEvent

\* The end of the loop and the return of extract_all_event_markets.
ExtractReturn ==
    /\ comp = "event"
    /\ e_pc = "loop"
    /\ e_i = Len(e_markets)
    /\ e_pc' = "done"
    /\ e_result' = [returned |-> TRUE, isNone |-> ~EventHasData(market_data),
                    total_markets |-> total_markets(market_data)]
    /\ UNCHANGED <<e_markets, e_i, market_data, successful, failed, e_fetches, e_skips>>
    /\ FrameEvent

NextEvent ==
    \/ \E markets \in EventMarketLists : ExtractAllEventMarketsCall(markets)
    \/ SkipMarket
    \/ \E outcome \in FetchOutcomes : FetchMarket(outcome)
    \/ ExtractReturn

----------------------------------------------------------------------------
(* PolymarketAPI.search_markets, CLOBAPIClient.search_markets,             *)
(* GammaAPIClient.search_markets                                           *)
(*                                                                         *)
(* A listed market is [slug, question], both texts; a result records the   *)
(* client that built it.                                                   *)

Listed(slug, question) == [slug |-> slug, question |-> question]

\* Slugs "a", "ab", "c", "c"; questions "x", "x", "Ba", "x".
ListedMarkets ==
    { Listed(<<"a">>, <<"x">>), Listed(<<"a", "b">>, <<"x">>),
      Listed(<<"c">>, <<"B", "a">>), Listed(<<"c">>, <<"x">>) }

SearchQueries == { <<"a">>, <<"B">> }

Found(listed, source) == [slug |-> listed.slug, question |-> listed.question, source |-> source]

\* `query_lower in question.lower() or query_lower in slug.lower()`
Matches(query, listed) ==
    \/ Contains(Lower(listed.question), Lower(query))
    \/ Contains(Lower(listed.slug), Lower(query))

ListedLists ==
    {<<>>} \cup { <<x>> : x \in ListedMarkets }
           \cup { <<x, y>> : x \in ListedMarkets, y \in ListedMarkets }

\* What CLOBAPIClient.get_markets may return to the search.
SearchPages ==
    { [ok |-> FALSE, data |-> <<>>, next_cursor |-> "None"] }
    \cup [ok : {TRUE}, data : ListedLists, next_cursor : {"None", "LTE=", "MQ=="}]

\* The inner `for market_data in data['data']` of the CLOB search: matching
\* entries are appended until the results reach the limit.
RECURSIVE ScanPage(_, _, _, _, _)
ScanPage(data, i, query, limit, results) ==
    IF i > Len(data) THEN results
    ELSE IF Matches(query, data[i])
    THEN LET more == Append(results, Found(data[i], "clob"))
         IN IF Len(more) >= limit THEN more
            ELSE ScanPage(data, i + 1, query, limit, more)
    ELSE ScanPage(data, i + 1, query, limit, results)

\* GammaAPIClient.search_markets over the listing get_markets returned.
RECURSIVE GammaMatching(_, _, _, _, _)
GammaMatching(all_markets, i, query, limit, matching) ==
    IF i > Len(all_markets) THEN matching
    ELSE IF Matches(query, all_markets[i])
    THEN LET more == Append(matching, Found(all_markets[i], "gamma"))
         IN IF Len(more) >= limit THEN more
            ELSE GammaMatching(all_markets, i + 1, query, limit, more)
    ELSE GammaMatching(all_markets, i + 1, query, limit, matching)

\* `if market.slug not in seen_slugs`
NotSeen_Always(market, seen_slugs) == TRUE

NotSeen(market, seen_slugs) == market.slug \notin seen_slugs

\* The merge loop: the Gamma results whose slug was not seen are appended.
RECURSIVE Supplement(_, _, _, _)
Supplement(results, gamma, i, seen_slugs) ==
    IF i > Len(gamma) THEN results
    ELSE Supplement(IF NotSeen(gamma[i], seen_slugs) THEN Append(results, gamma[i]) ELSE results,
                    gamma, i + 1, seen_slugs)

\* xs[:n] for n >= 0
Truncate(xs, n) == SubSeq(xs, 1, IF n < Len(xs) THEN n ELSE Len(xs))

SIdle ==
    /\ s_pc = "idle" /\ s_query = <<>> /\ s_limit = 0 /\ s_cursor = "None"
    /\ s_calls = <<>> /\ s_pages = 0 /\ clob_results = <<>> /\ gamma_results = <<>>
    /\ s_result = <<>>

\* The return of the CLOB search with `results`, and the rest of
\* PolymarketAPI.search_markets up to the Gamma call.
AfterClobSearch(results) ==
    /\ clob_results' = results
    /\ IF Len(results) < s_limit
       THEN s_pc' = "gamma" /\ UNCHANGED s_result
       ELSE s_pc' = "done" /\ s_result' = Truncate(results, s_limit)

\* search_markets(query, limit): entry, and the CLOB search up to its first
\* `while len(results) < limit` test.
SearchMarketsCall(query, limit) ==
    /\ comp = "search"
    /\ s_pc = "idle"
    /\ s_query' = query
    /\ s_limit' = limit
    /\ s_calls' = <<[client |-> "clob", limit |-> limit]>>
    /\ IF 0 < limit
       THEN s_pc' = "clob" /\ UNCHANGED <<clob_results, s_result>>
       ELSE s_pc' = "done" /\ clob_results' = <<>> /\ s_result' = <<>>
    /\ UNCHANGED <<s_cursor, s_pages, gamma_results>>
    /\ FrameSearch

\* One iteration of the CLOB search's while loop: get_markets(next_cursor)
\* returned `page`.
ClobSearchPage(page) ==
    /\ comp = "search"
    /\ s_pc = "clob"
    /\ s_pages < MaxPages
    /\ s_pages' = s_pages + 1
    /\ LET results == ScanPage(page.data, 1, s_query, s_limit, clob_results) IN
       IF ~page.ok
       THEN AfterClobSearch(clob_results) /\ UNCHANGED s_cursor
       ELSE /\ s_cursor' = page.next_cursor
            /\ IF CursorEnds(page.next_cursor) \/ ~(Len(results) < s_limit)
               THEN AfterClobSearch(results)
               ELSE clob_results' = results /\ UNCHANGED <<s_pc, s_result>>
    /\ UNCHANGED <<s_query, s_limit, s_calls, gamma_results>>
    /\ FrameSearch

\* The Gamma search over `listing` ([] when get_markets failed), the merge
\* and the return.
GammaSearch(listing) ==
    /\ comp = "search"
    /\ s_pc = "gamma"
    /\ LET want  == s_limit - Len(clob_results)
           gamma == GammaMatching(listing, 1, s_query, want, <<>>)
           seen_slugs == { clob_results[i].slug : i \in DOMAIN clob_results }
       IN
       /\ s_calls' = Append(s_calls, [client |-> "gamma", limit |-> want])
       /\ gamma_results' = gamma
       /\ s_result' = Truncate(Supplement(clob_results, gamma, 1, seen_slugs), s_limit)
    /\ s_pc' = "done"
    /\ UNCHANGED <<s_query, s_limit, s_cursor, s_pages, clob_results>>
    /\ FrameSearch

NextSearch ==
    \/ \E query \in SearchQueries, limit \in 0..MaxLimit : SearchMarketsCall(query, limit)
    \/ \E page \in SearchPages : ClobSearchPage(page)
    \/ \E listing \in ListedLists : GammaSearch(listing)

----------------------------------------------------------------------------
(* PolymarketURLParser.parse                                               *)
(*                                                                         *)
(* A URL is a text given as a sequence of fragments: the separators "//",  *)
(* "/", "?" stand alone, a percent escape is one fragment, and a path      *)
(* segment is a run of fragments between two "/".                          *)

\* urllib.parse.urlparse: with a scheme followed by "//" the netloc runs up
\* to the first "/" or "?" and the path from there up to "?"; without it
\* the netloc is empty and the path starts at once.
HasAuthority(url) == Len(url) >= 2 /\ url[1] = "https:" /\ url[2] = "//"

\* The first position from i on holding one of the stops, Len + 1 if none.
RECURSIVE FirstStop(_, _, _)
FirstStop(text, i, stops) ==
    IF i > Len(text) THEN Len(text) + 1
    ELSE IF text[i] \in stops THEN i
    ELSE FirstStop(text, i + 1, stops)

urlparse(url) ==
    LET from == IF HasAuthority(url) THEN 3 ELSE 1
        nend == IF HasAuthority(url) THEN FirstStop(url, from, {"/", "?"}) ELSE from
        pend == FirstStop(url, nend, {"?"})
    IN [netloc |-> SubSeq(url, from, nend - 1), path |-> SubSeq(url, nend, pend - 1)]

\* urllib.parse.unquote
UnquoteFragment_Kept(c) == c

UnquoteFragment(c) == CASE c = "%2D" -> "-" [] c = "%20" -> " " [] OTHER -> c

unquote(text) == [i \in DOMAIN text |-> UnquoteFragment(text[i])]

\* str.strip('/')
RECURSIVE strip(_)
strip(path) ==
    IF path = <<>> THEN path
    ELSE IF Head(path) = "/" THEN strip(Tail(path))
    ELSE IF path[Len(path)] = "/" THEN strip(SubSeq(path, 1, Len(path) - 1))
    ELSE path

\* The maximal run of fragments from i on without "/" or "?": [^/?]+
RunFrom(path, i) == SubSeq(path, i, FirstStop(path, i, {"/", "?"}) - 1)

\* re.search of '/' word '/' ([^/]+): the first position of the "/" that
\* starts a match, 0 when the pattern matches nowhere.
PatternAt(path, word, i) ==
    /\ i + 3 <= Len(path)
    /\ path[i] = "/" /\ path[i + 1] = word /\ path[i + 2] = "/"
    /\ RunFrom(path, i + 3) # <<>>

SearchPattern(path, word) ==
    IF \E i \in DOMAIN path : PatternAt(path, word, i)
    THEN CHOOSE i \in DOMAIN path :
            PatternAt(path, word, i) /\ \A j \in 1..(i - 1) : ~PatternAt(path, word, j)
    ELSE 0

\* EVENT_MARKET_PATTERN = /event/([^/]+)(?:/([^/?]+))?
EventMatch(path) ==
    LET i  == SearchPattern(path, "event")
        g1 == RunFrom(path, i + 3)
        j  == i + 3 + Len(g1)
        g2 == IF j <= Len(path) /\ path[j] = "/" THEN RunFrom(path, j + 1) ELSE <<>>
    IN IF i = 0 THEN [matched |-> FALSE, group1 |-> <<>>, group2 |-> <<>>]
       ELSE [matched |-> TRUE, group1 |-> g1, group2 |-> g2]

\* MARKET_DIRECT_PATTERN = /market/([^/?]+)
MarketMatch(path) ==
    LET i == SearchPattern(path, "market")
    IN IF i = 0 THEN [matched |-> FALSE, group1 |-> <<>>]
       ELSE [matched |-> TRUE, group1 |-> RunFrom(path, i + 3)]

\* DIRECT_SLUG_PATTERN = ^/?([^/?]+)$
DirectMatch(path) ==
    LET rest == IF path # <<>> /\ Head(path) = "/" THEN Tail(path) ELSE path
    IN IF rest # <<>> /\ RunFrom(rest, 1) = rest
       THEN [matched |-> TRUE, group1 |-> rest]
       ELSE [matched |-> FALSE, group1 |-> <<>>]

\* The list of `if slug not in [...]`
NonMarketPaths ==
    { <<"markets">>, <<"elections">>, <<"leaderboard">>, <<"about">>, <<"docs">>, <<"help">> }

\* None for a slug is the empty text: a matched group is never empty.
NoSlug == <<>>

InvalidURLError == [raised |-> TRUE, type |-> "None", event_slug |-> NoSlug,
                    market_slug |-> NoSlug, path |-> <<>>]

Parsed(type, event_slug, market_slug, path) ==
    [raised |-> FALSE, type |-> type, event_slug |-> event_slug,
     market_slug |-> market_slug, path |-> path]

\* `'polymarket.com' in parsed.netloc`
NetlocAccepted(netloc) == \E i \in DOMAIN netloc : netloc[i] = "polymarket.com"

parse(url) ==
    LET parsed == urlparse(url)
        path   == strip(parsed.path)
        event_match  == EventMatch(parsed.path)
        market_match == MarketMatch(parsed.path)
        direct_match == DirectMatch(parsed.path)
    IN IF url = <<>> THEN InvalidURLError
       ELSE IF ~NetlocAccepted(parsed.netloc) THEN InvalidURLError
       ELSE IF event_match.matched
       THEN IF event_match.group2 # <<>>
            THEN Parsed("market", unquote(event_match.group1), unquote(event_match.group2), path)
            ELSE Parsed("event", unquote(event_match.group1), NoSlug, path)
       ELSE IF market_match.matched
       THEN Parsed("market", NoSlug, unquote(market_match.group1), path)
       ELSE IF direct_match.matched /\ unquote(direct_match.group1) \notin NonMarketPaths
       THEN Parsed("market", NoSlug, unquote(direct_match.group1), path)
       ELSE InvalidURLError

\* ---- inputs

UrlPrefixes ==
    { <<>>,
      <<"https:", "//", "polymarket.com">>,
      <<"https:", "//", "www.", "polymarket.com">>,
      <<"https:", "//", "example.com">>,
      <<"https:", "//", "polymarket.com", ".example.org">> }

\* Path segments: the words the patterns and the list name, a plain slug,
\* and a slug with an escaped hyphen.
Segments ==
    { <<"event">>, <<"market">>, <<"markets">>, <<"elections">>, <<"leaderboard">>,
      <<"about">>, <<"docs">>, <<"help">>, <<"portfolio">>, <<"my-slug">>,
      <<"a", "%2D", "b">> }

RECURSIVE PathsOf(_)
PathsOf(n) ==
    IF n = 0 THEN { <<>> }
    ELSE { p \o <<"/">> \o seg : p \in PathsOf(n - 1), seg \in Segments }

UrlPaths == UNION { PathsOf(n) : n \in 0..MaxSegments }

UrlTails == { <<>>, <<"/">>, <<"?", "q=1">>, <<"/", "?", "q=1">> }

Urls == { pre \o p \o tail : pre \in UrlPrefixes, p \in UrlPaths, tail \in UrlTails }

PIdle == p_pc = "idle" /\ p_url = <<>> /\ p_result = InvalidURLError

Parse(url) ==
    /\ comp = "parse"
    /\ p_pc = "idle"
    /\ p_pc' = "done"
    /\ p_url' = url
    /\ p_result' = parse(url)
    /\ FrameParse

\* The urls are offered to a parser that has not run yet.
NextParse == \E url \in (IF p_pc = "idle" THEN Urls ELSE {}) : Parse(url)

-----------------------------------------------------------------------------
(* Market construction: Market.from_clob_response,                         *)
(* Market.from_gamma_response, Market.is_inactive_negrisk_option           *)
(* (models.py).                                                            *)
(* A payload is a JSON object; a value of it is [kind, s, n]: kind says    *)
(* whether the key is absent, null, a string (s, its characters or runs of *)
(* characters), a number (n, in tenths), a boolean or a list of strings    *)
(* (s, its items).  A float is a number of tenths.                         *)

JsonValue(kind, s, n) == [kind |-> kind, s |-> s, n |-> n]

Absent   == JsonValue("absent", <<>>, 0)
Null     == JsonValue("null", <<>>, 0)
JsonTrue == JsonValue("true", <<>>, 0)
JsonFalse == JsonValue("false", <<>>, 0)
Str(s)   == JsonValue("str", s, 0)
Num(n)   == JsonValue("num", <<>>, n)
List(l)  == JsonValue("list", l, 0)
Float(n) == JsonValue("float", <<>>, n)

\* data.get(key, default)
Get(value, default) == IF value.kind = "absent" THEN default ELSE value

\* Python truth value of a payload value
Truthy(value) ==
    CASE value.kind \in {"absent", "null", "false"} -> FALSE
      [] value.kind = "true" -> TRUE
      [] value.kind \in {"num", "float"} -> value.n # 0
      [] OTHER -> value.s # <<>>

Digits == <<"0", "1", "2", "3", "4", "5", "6", "7", "8", "9">>

IsDigits(s) == \A i \in DOMAIN s : \E d \in DOMAIN Digits : Digits[d] = s[i]

DigitValue(c) == (CHOOSE d \in DOMAIN Digits : Digits[d] = c) - 1

RECURSIVE DigitsValue(_)
DigitsValue(s) ==
    IF s = <<>> THEN 0 ELSE 10 * DigitsValue(SubSeq(s, 1, Len(s) - 1)) + DigitValue(s[Len(s)])

\* The text of a decimal numeral with at most one digit after the point.
IsNumeral(s) ==
    LET dot == IndexOf(s, ".") IN
    IF dot = 0 THEN s # <<>> /\ IsDigits(s)
    ELSE /\ IsDigits(SubSeq(s, 1, dot - 1))
         /\ IsDigits(SubSeq(s, dot + 1, Len(s)))
         /\ Len(s) > 1
         /\ Len(s) - dot <= 1

Numeral(s) ==
    LET dot == IndexOf(s, ".") IN
    IF dot = 0 THEN 10 * DigitsValue(s)
    ELSE 10 * DigitsValue(SubSeq(s, 1, dot - 1)) + DigitsValue(SubSeq(s, dot + 1, Len(s)))

Raises(type) == [raised |-> TRUE, type |-> type, value |-> Null]
Gives(value) == [raised |-> FALSE, type |-> "", value |-> value]

\* float(x) for the argument kinds met here
float(value) ==
    CASE value.kind \in {"num", "float"} -> Gives(Float(value.n))
      [] value.kind = "true" -> Gives(Float(10))
      [] value.kind = "false" -> Gives(Float(0))
      [] value.kind = "str" -> IF IsNumeral(value.s) THEN Gives(Float(Numeral(value.s)))
                                ELSE Raises("ValueError")
      [] OTHER -> Raises("TypeError")

\* A JSON text of a list of strings is "[", then items in double quotes
\* separated by ",", then "]"; an item is written here as one run.
Quoted(item) == <<"\"", item, "\"">>

RECURSIVE JoinItems(_)
JoinItems(items) ==
    IF items = <<>> THEN <<>>
    ELSE IF Len(items) = 1 THEN Quoted(items[1])
    ELSE Quoted(items[1]) \o <<",">> \o JoinItems(Tail(items))

\* json.dumps of a list of strings
JsonText(items) == <<"[">> \o JoinItems(items) \o <<"]">>

RECURSIVE ParseItems(_)
ParseItems(text) ==
    IF Len(text) < 3 \/ text[1] # "\"" \/ text[3] # "\"" \/ text[2] \in {"\"", ",", "[", "]"}
    THEN [ok |-> FALSE, items |-> <<>>]
    ELSE IF Len(text) = 3 THEN [ok |-> TRUE, items |-> <<text[2]>>]
    ELSE IF text[4] # "," THEN [ok |-> FALSE, items |-> <<>>]
    ELSE LET rest == ParseItems(SubSeq(text, 5, Len(text))) IN
         [ok |-> rest.ok, items |-> <<text[2]>> \o rest.items]

\* json.loads(value): a list for the text of a list, TypeError for a value
\* that is not a text, JSONDecodeError for a text that is not JSON.
json_loads(value) ==
    IF value.kind # "str" THEN Raises("TypeError")
    ELSE IF Len(value.s) < 2 \/ value.s[1] # "[" \/ value.s[Len(value.s)] # "]"
    THEN Raises("JSONDecodeError")
    ELSE IF Len(value.s) = 2 THEN Gives(List(<<>>))
    ELSE LET parsed == ParseItems(SubSeq(value.s, 2, Len(value.s) - 1)) IN
         IF parsed.ok THEN Gives(List(parsed.items)) ELSE Raises("JSONDecodeError")

\* `x = []; if data.get(key): try: x = json.loads(data[key]) except: x = data.get(key, [])`
\* The result is what len() and iteration see: the items of a list, the
\* characters of a string.
ParsedList(value) ==
    IF ~Truthy(value) THEN <<>>
    ELSE IF json_loads(value).raised THEN value.s
    ELSE json_loads(value).value.s

\* None or the text of neg_risk_market_id
IdText(value) ==
    IF value.kind \in {"absent", "null"} THEN "None"
    ELSE IF value.s = <<>> THEN "" ELSE value.s[1]

NoMarketBuilt ==
    [slug |-> Null, condition_id |-> Null, volume |-> Null, outcomes |-> <<>>, token_ids |-> <<>>,
     neg_risk |-> FALSE, neg_risk_market_id |-> "None"]

\* Market.from_gamma_response
from_gamma_response(data) ==
    LET token_ids == ParsedList(data.clobTokenIds)
        outcomes  == ParsedList(data.outcomes)
        volume    == float(IF Truthy(Get(data.volume, Num(0))) THEN data.volume ELSE Num(0))
    IN  IF volume.raised THEN Raises(volume.type)
        ELSE Gives([slug |-> Get(data.slug, Str(<<>>)),
                       condition_id |-> Get(data.conditionId, Str(<<>>)),
                       volume |-> volume.value,
                       outcomes |-> outcomes,
                       token_ids |-> token_ids,
                       neg_risk |-> Truthy(Get(data.negRisk, JsonFalse)),
                       neg_risk_market_id |-> IdText(data.negRiskMarketID)])

\* `for token in data.get('tokens', [])`: a token is kept when both its
\* token_id and its outcome are non-empty.
RECURSIVE KeptTokens(_)
KeptTokens(tokens) ==
    IF tokens = <<>> THEN <<>>
    ELSE LET token_id == Get(tokens[1].token_id, Str(<<>>))
             outcome  == Get(tokens[1].outcome, Str(<<>>))
         IN  (IF Truthy(token_id) /\ Truthy(outcome) THEN <<tokens[1]>> ELSE <<>>)
                 \o KeptTokens(Tail(tokens))

\* Market.from_clob_response; volume keeps the default of the dataclass.
from_clob_response(data) ==
    LET kept == KeptTokens(data.tokens) IN
    Gives([slug |-> Get(data.market_slug, Str(<<>>)),
              condition_id |-> Get(data.condition_id, Str(<<>>)),
              volume |-> Float(0),
              outcomes |-> [i \in DOMAIN kept |-> kept[i].outcome.s[1]],
              token_ids |-> [i \in DOMAIN kept |-> kept[i].token_id.s[1]],
              neg_risk |-> Truthy(Get(data.neg_risk, JsonFalse)),
              neg_risk_market_id |-> IdText(data.neg_risk_market_id)])

\* ---- payloads ----

SlugValues == {Absent, Str(<<"will-btc-hit-100k">>)}

ConditionValues == {Absent, Str(<<"0x123abc">>)}

VolumeValues == {Absent, Null, Num(15), Str(<<"1", "5", ".", "5">>), Str(<<"2", "0">>)}

NegRiskValues == {Absent, JsonTrue, JsonFalse}

GroupValues == {Absent, Null, Str(<<"grp">>)}

OutcomeValues == {Absent, List(<<"Yes", "No">>), Str(JsonText(<<"Yes", "No">>)), Str(<<"[">>)}

TokenIdValues ==
    {Absent, Str(JsonText(<<"t1", "t2">>)), Str(JsonText(<<"t1", "">>)), Str(JsonText(<<"", "">>)),
     List(<<"t1", "t2">>)}

GammaPayloads ==
    [slug : SlugValues, conditionId : ConditionValues, volume : VolumeValues,
     outcomes : OutcomeValues, clobTokenIds : TokenIdValues,
     negRisk : NegRiskValues, negRiskMarketID : GroupValues]

ClobTokens ==
    { [token_id |-> Str(<<"t1">>), outcome |-> Str(<<"Yes">>)],
      [token_id |-> Str(<<"t2">>), outcome |-> Str(<<"No">>)],
      [token_id |-> Str(<<>>),     outcome |-> Str(<<"Yes">>)],
      [token_id |-> Str(<<"t1">>), outcome |-> Absent] }

ClobTokenLists == UNION { [1..n -> ClobTokens] : n \in 0..MaxTokens }

ClobPayloads ==
    [market_slug : SlugValues, condition_id : ConditionValues, volume : VolumeValues,
     tokens : ClobTokenLists, neg_risk : NegRiskValues, neg_risk_market_id : GroupValues]

KIdle ==
    /\ k_pc = "idle" /\ k_source = "none" /\ k_data = <<>>
    /\ k_market = NoMarketBuilt /\ k_inactive = FALSE

\* Market.from_gamma_response(data), for a payload of the metadata API
FromGammaResponse ==
    \E data \in (IF k_pc = "idle" THEN GammaPayloads ELSE {}) :
        /\ comp = "market"
        /\ k_pc = "idle"
        /\ k_source' = "gamma"
        /\ k_data' = data
        /\ IF from_gamma_response(data).raised
           THEN k_pc' = "raised" /\ UNCHANGED k_market
           ELSE k_pc' = "built" /\ k_market' = from_gamma_response(data).value
        /\ UNCHANGED k_inactive
        /\ FrameMarket

\* Market.from_clob_response(data), for a payload of the trading API
FromClobResponse ==
    \E data \in (IF k_pc = "idle" THEN ClobPayloads ELSE {}) :
        /\ comp = "market"
        /\ k_pc = "idle"
        /\ k_source' = "clob"
        /\ k_data' = data
        /\ IF from_clob_response(data).raised
           THEN k_pc' = "raised" /\ UNCHANGED k_market
           ELSE k_pc' = "built" /\ k_market' = from_clob_response(data).value
        /\ UNCHANGED k_inactive
        /\ FrameMarket

\* market.is_inactive_negrisk_option() on the constructed Market
IsInactiveNegriskOption ==
    /\ comp = "market"
    /\ k_pc = "built"
    /\ k_pc' = "asked"
    /\ k_inactive' = is_inactive_negrisk_option(k_market)
    /\ UNCHANGED <<k_source, k_data, k_market>>
    /\ FrameMarket

NextMarket == FromGammaResponse \/ FromClobResponse \/ IsInactiveNegriskOption

-----------------------------------------------------------------------------
(* The order book: OrderLevel, OrderBook.from_api_response, best_bid,      *)
(* best_ask, mid_price, spread (orderbook.py).                             *)
(* A level of the payload is the list [price, size] of two numerals.  A    *)
(* Decimal is a number of twentieths, so that half the sum of two prices   *)
(* given in tenths is exact.                                               *)

\* Decimal(text)
Decimal(text) == 2 * Numeral(text)

\* OrderLevel.from_api_response
OrderLevel(data) == [price |-> Decimal(data[1]), size |-> Decimal(data[2])]

\* list.sort(key=lambda x: x.price, reverse=...) is stable: a level goes
\* behind the levels of the same price that came before it.
GoesBefore(level, other, reverse) ==
    IF reverse THEN level.price > other.price ELSE level.price < other.price

RECURSIVE InsertLevel(_, _, _)
InsertLevel(sorted, level, reverse) ==
    IF sorted = <<>> THEN <<level>>
    ELSE IF GoesBefore(level, sorted[1], reverse) THEN <<level>> \o sorted
    ELSE <<sorted[1]>> \o InsertLevel(Tail(sorted), level, reverse)

RECURSIVE SortLevels(_, _)
SortLevels_InputOrder(levels, reverse) == levels

SortLevels(levels, reverse) ==
    IF levels = <<>> THEN <<>>
    ELSE InsertLevel(SortLevels(SubSeq(levels, 1, Len(levels) - 1), reverse),
                     levels[Len(levels)], reverse)

NoDecimal == [isNone |-> TRUE, v |-> 0]
Dec(v)    == [isNone |-> FALSE, v |-> v]

\* OrderBook.mid_price
mid_price_ZeroWhenEmpty(book_bids, book_asks) ==
    IF book_bids # <<>> /\ book_asks # <<>>
    THEN Dec((book_bids[1].price + book_asks[1].price) \div 2)
    ELSE Dec(0)

mid_price(book_bids, book_asks) ==
    IF book_bids # <<>> /\ book_asks # <<>>
    THEN Dec((book_bids[1].price + book_asks[1].price) \div 2)
    ELSE NoDecimal

\* OrderBook.spread
spread(book_bids, book_asks) ==
    IF book_bids # <<>> /\ book_asks # <<>>
    THEN Dec(book_asks[1].price - book_bids[1].price)
    ELSE NoDecimal

\* ---- payloads ----

LevelPrices == { <<"0", ".", "4">>, <<"0", ".", "5">>, <<"0", ".", "7">> }

LevelSizes == { <<"1", "0">>, <<"2", "5">> }

Levels == { <<price, size>> : price \in LevelPrices, size \in LevelSizes }

LevelLists == UNION { [1..n -> Levels] : n \in 0..MaxLevels }

\* data.get('bids', []) and data.get('asks', [])
BookPayloads == [bids : LevelLists, asks : LevelLists]

NoBookPayload == [bids |-> <<>>, asks |-> <<>>]

OIdle ==
    /\ o_pc = "idle" /\ o_data = NoBookPayload /\ bids = <<>> /\ asks = <<>>
    /\ o_mid = NoDecimal /\ o_spread = NoDecimal

\* OrderBook.from_api_response(data, token_id, outcome)
FromApiResponse ==
    \E data \in (IF o_pc = "idle" THEN BookPayloads ELSE {}) :
        /\ comp = "book"
        /\ o_pc = "idle"
        /\ o_pc' = "built"
        /\ o_data' = data
        /\ bids' = SortLevels([i \in DOMAIN data.bids |-> OrderLevel(data.bids[i])], TRUE)
        /\ asks' = SortLevels([i \in DOMAIN data.asks |-> OrderLevel(data.asks[i])], FALSE)
        /\ UNCHANGED <<o_mid, o_spread>>
        /\ FrameBook

\* book.mid_price and book.spread read on the constructed book
ReadMidAndSpread ==
    /\ comp = "book"
    /\ o_pc = "built"
    /\ o_pc' = "read"
    /\ o_mid' = mid_price(bids, asks)
    /\ o_spread' = spread(bids, asks)
    /\ UNCHANGED <<o_data, bids, asks>>
    /\ FrameBook

NextBook == FromApiResponse \/ ReadMidAndSpread

-----------------------------------------------------------------------------
(* OrderBook.get_market_impact (orderbook.py), on a book constructed by    *)
(* OrderBook.from_api_response.  A cost, a price times a size, is a number *)
(* of 1/400; the average price total_cost / size is kept as the pair of    *)
(* its numerator and denominator.                                          *)

NoImpact == [kind |-> "none", levels_consumed |-> 0, total_cost |-> 0,
             best_price |-> 0, average_price |-> <<0, 1>>]

\* `return None`
ImpactNone == [kind |-> "None", levels_consumed |-> 0, total_cost |-> 0,
               best_price |-> 0, average_price |-> <<0, 1>>]

\* total_cost / size with size = 0: decimal.InvalidOperation or
\* decimal.DivisionByZero
ImpactRaised == [kind |-> "raised", levels_consumed |-> 0, total_cost |-> 0,
                 best_price |-> 0, average_price |-> <<0, 1>>]

\* The loop `for level in levels` from position k on.
RECURSIVE Consume(_, _, _, _, _)
Consume(levels, k, remaining_size, total_cost, levels_consumed) ==
    IF k > Len(levels) \/ remaining_size <= 0
    THEN [remaining_size |-> remaining_size, total_cost |-> total_cost,
          levels_consumed |-> levels_consumed]
    ELSE LET fill_size == Min(remaining_size, levels[k].size) IN
         Consume(levels, k + 1, remaining_size - fill_size,
                 total_cost + fill_size * levels[k].price, levels_consumed + 1)

\* OrderBook.get_market_impact
get_market_impact_Partial(book_bids, book_asks, size, side) ==
    LET levels == IF side = "buy" THEN book_asks ELSE book_bids
        end == Consume(levels, 1, size, 0, 0)
    IN  IF levels = <<>> THEN ImpactNone
        ELSE IF size = 0 THEN ImpactRaised
        ELSE [kind |-> "dict", levels_consumed |-> end.levels_consumed,
              total_cost |-> end.total_cost, best_price |-> levels[1].price,
              average_price |-> <<end.total_cost, size>>]

get_market_impact(book_bids, book_asks, size, side) ==
    LET levels == IF side = "buy" THEN book_asks ELSE book_bids
        end == Consume(levels, 1, size, 0, 0)
    IN  IF levels = <<>> THEN ImpactNone
        ELSE IF end.remaining_size > 0 THEN ImpactNone
        ELSE IF size = 0 THEN ImpactRaised
        ELSE [kind |-> "dict", levels_consumed |-> end.levels_consumed,
              total_cost |-> end.total_cost, best_price |-> levels[1].price,
              average_price |-> <<end.total_cost, size>>]

\* ---- payloads ----

ImpactPrices == { <<"0", ".", "4">>, <<"0", ".", "5">> }

ImpactLevelSizes == { <<"0">>, <<"1", "0">>, <<"2", "5">> }

ImpactLevels == { <<price, size>> : price \in ImpactPrices, size \in ImpactLevelSizes }

ImpactLevelLists == UNION { [1..n -> ImpactLevels] : n \in 0..MaxImpactLevels }

ImpactPayloads == [bids : ImpactLevelLists, asks : ImpactLevelLists]

Sides == {"buy", "sell"}

RECURSIVE TotalSize(_)
TotalSize(levels) == IF levels = <<>> THEN 0 ELSE levels[1].size + TotalSize(Tail(levels))

\* Decimal('1')
OneUnit == Decimal(<<"1">>)

\* The sizes asked of a side: nothing, its first level, all of it, all of
\* it and one unit more.
ImpactSizes(levels) ==
    {0, TotalSize(levels), TotalSize(levels) + OneUnit}
        \cup (IF levels = <<>> THEN {} ELSE {levels[1].size})

IIdle == i_size = 0 /\ i_side = "" /\ i_impact = NoImpact

\* OrderBook.from_api_response for the books whose impact is asked
ImpactBook ==
    \E data \in (IF o_pc = "idle" THEN ImpactPayloads ELSE {}) :
        /\ comp = "impact"
        /\ o_pc = "idle"
        /\ o_pc' = "built"
        /\ o_data' = data
        /\ bids' = SortLevels([i \in DOMAIN data.bids |-> OrderLevel(data.bids[i])], TRUE)
        /\ asks' = SortLevels([i \in DOMAIN data.asks |-> OrderLevel(data.asks[i])], FALSE)
        /\ UNCHANGED <<o_mid, o_spread, iVars>>
        /\ FrameImpact

\* book.get_market_impact(size, side)
GetMarketImpact ==
    \E side \in Sides :
        \E size \in (IF o_pc = "built" THEN ImpactSizes(IF side = "buy" THEN asks ELSE bids) ELSE {}) :
            /\ comp = "impact"
            /\ o_pc = "built"
            /\ o_pc' = "asked"
            /\ i_size' = size
            /\ i_side' = side
            /\ i_impact' = get_market_impact(bids, asks, size, side)
            /\ UNCHANGED <<o_data, bids, asks, o_mid, o_spread>>
            /\ FrameImpact

NextImpact == ImpactBook \/ GetMarketImpact

-----------------------------------------------------------------------------
(* The optional request parameters of the list-style calls:                *)
(* DataAPIClient.get_user_positions, get_user_activity, get_user_trades    *)
(* (data_api.py), CLOBAPIClient.get_price_history and                      *)
(* GammaAPIClient.get_markets (api.py).  An argument is a value as in a    *)
(* payload; the entry of a parameter that is left out of params is Absent. *)

\* `if value is not None: params[key] = value`
IfNotNone(value) == IF value.kind = "null" THEN Absent ELSE value

\* `if value: params[key] = value`
IfTruthy(value) == IF Truthy(value) THEN value ELSE Absent

RECURSIVE JoinComma(_)
JoinComma(items) ==
    IF items = <<>> THEN <<>>
    ELSE IF Len(items) = 1 THEN <<items[1]>>
    ELSE <<items[1], ",">> \o JoinComma(Tail(items))

\* `if activity_types: params["activity_types"] = ",".join(activity_types)`
IfTruthyJoined(value) == IF Truthy(value) THEN Str(JoinComma(value.s)) ELSE Absent

\* What the request of a call may meet: an answer, a transport failure and
\* then an answer, a rejection.
QueryScripts ==
    { <<RespOk("points")>>, <<RespTransport, RespOk("points")>>,
      <<RespStatus(500, "internal error")>> }

\* The outcome of `try: self._request_with_retry(...) except Exception`:
\* the call returns, or raises `wrapped` when `wraps`, or returns the value
\* of the except branch.
Requested(script, wraps) ==
    LET r == RunRequest(script, 0) IN
    [sent |-> r.sent,
     exc |-> IF r.next = "return" \/ ~wraps THEN NoExc
             ELSE APIError(<<"Failed to fetch: ">> \o r.exc.msg)]

\* DataAPIClient.get_user_positions: the parameters built before the
\* request, or the ValueError raised while building them.
get_user_positions_EventPreferred(args) ==
    [raised |-> FALSE,
     params |-> [redeemable |-> IfNotNone(args.redeemable),
                 mergeable  |-> IfNotNone(args.mergeable),
                 market     |-> Absent,
                 event      |-> IfTruthy(args.event)]]

get_user_positions(args) ==
    IF Truthy(args.event) /\ Truthy(args.market)
    THEN [raised |-> TRUE,
          params |-> [redeemable |-> IfNotNone(args.redeemable),
                      mergeable  |-> IfNotNone(args.mergeable),
                      market     |-> IfTruthy(args.market),
                      event      |-> Absent]]
    ELSE [raised |-> FALSE,
          params |-> [redeemable |-> IfNotNone(args.redeemable),
                      mergeable  |-> IfNotNone(args.mergeable),
                      market     |-> IfTruthy(args.market),
                      event      |-> IfTruthy(args.event)]]

\* DataAPIClient.get_user_activity
get_user_activity(args) ==
    [activity_types |-> IfTruthyJoined(args.activity_types),
     side   |-> IfTruthy(args.side),
     market |-> IfTruthy(args.market)]

\* DataAPIClient.get_user_trades
get_user_trades(args) ==
    [market   |-> IfTruthy(args.market),
     start_ts |-> IfTruthy(args.start_ts),
     end_ts   |-> IfTruthy(args.end_ts)]

\* CLOBAPIClient.get_price_history
get_price_history(args) ==
    [startTs  |-> IfTruthy(args.start_ts),
     endTs    |-> IfTruthy(args.end_ts),
     fidelity |-> IfTruthy(args.fidelity)]

\* GammaAPIClient.get_markets
get_markets(args) ==
    [active |-> IfNotNone(args.active),
     closed |-> IfNotNone(args.closed)]

\* ---- arguments ----

OptionalBools == {Null, JsonTrue, JsonFalse}

OptionalTexts == {Null, Str(<<>>), Str(<<"x">>)}

OptionalInts == {Null, Num(0), Num(MaxArg)}

OptionalTypeLists == {Null, List(<<>>), List(<<"TRADE">>), List(<<"TRADE", "SPLIT">>)}

PositionArgs ==
    [op : {"get_user_positions"}, redeemable : OptionalBools, mergeable : OptionalBools,
     market : OptionalTexts, event : OptionalTexts]

ActivityArgs ==
    [op : {"get_user_activity"}, activity_types : OptionalTypeLists, side : OptionalTexts,
     market : OptionalTexts]

TradeArgs ==
    [op : {"get_user_trades"}, market : OptionalTexts, start_ts : OptionalInts, end_ts : OptionalInts]

PriceHistoryArgs ==
    [op : {"get_price_history"}, start_ts : OptionalInts, end_ts : OptionalInts,
     fidelity : OptionalInts]

MarketsArgs == [op : {"get_markets"}, active : OptionalBools, closed : OptionalBools]

NoCall == [op |-> "none"]

QIdle ==
    /\ q_pc = "idle" /\ q_call = NoCall /\ q_params = <<>> /\ q_sent = 0 /\ q_exc = NoExc

\* DataAPIClient.get_user_positions(address, ...)
GetUserPositions ==
    \E args \in (IF q_pc = "idle" THEN PositionArgs ELSE {}), script \in QueryScripts :
        /\ comp = "query"
        /\ q_pc = "idle"
        /\ q_call' = args
        /\ q_params' = get_user_positions(args).params
        /\ IF get_user_positions(args).raised
           THEN /\ q_pc' = "raised"
                /\ q_sent' = 0
                /\ q_exc' = ValueError(<<"Cannot use both market and event filters">>)
           ELSE /\ q_sent' = Requested(script, TRUE).sent
                /\ q_exc' = Requested(script, TRUE).exc
                /\ q_pc' = IF Requested(script, TRUE).exc = NoExc THEN "returned" ELSE "raised"
        /\ FrameQuery

\* DataAPIClient.get_user_activity(address, ...)
GetUserActivity ==
    \E args \in (IF q_pc = "idle" THEN ActivityArgs ELSE {}), script \in QueryScripts :
        /\ comp = "query"
        /\ q_pc = "idle"
        /\ q_call' = args
        /\ q_params' = get_user_activity(args)
        /\ q_sent' = Requested(script, TRUE).sent
        /\ q_exc' = Requested(script, TRUE).exc
        /\ q_pc' = IF Requested(script, TRUE).exc = NoExc THEN "returned" ELSE "raised"
        /\ FrameQuery

\* DataAPIClient.get_user_trades(address, ...)
GetUserTrades ==
    \E args \in (IF q_pc = "idle" THEN TradeArgs ELSE {}), script \in QueryScripts :
        /\ comp = "query"
        /\ q_pc = "idle"
        /\ q_call' = args
        /\ q_params' = get_user_trades(args)
        /\ q_sent' = Requested(script, TRUE).sent
        /\ q_exc' = Requested(script, TRUE).exc
        /\ q_pc' = IF Requested(script, TRUE).exc = NoExc THEN "returned" ELSE "raised"
        /\ FrameQuery

\* CLOBAPIClient.get_price_history(market_id, interval, ...): an error of
\* the request is logged and None is returned.
GetPriceHistory ==
    \E args \in (IF q_pc = "idle" THEN PriceHistoryArgs ELSE {}), script \in QueryScripts :
        /\ comp = "query"
        /\ q_pc = "idle"
        /\ q_call' = args
        /\ q_params' = get_price_history(args)
        /\ q_sent' = Requested(script, FALSE).sent
        /\ q_exc' = NoExc
        /\ q_pc' = "returned"
        /\ FrameQuery

\* GammaAPIClient.get_markets(...): an error of the request is logged and
\* [] is returned.
GetMarkets ==
    \E args \in (IF q_pc = "idle" THEN MarketsArgs ELSE {}), script \in QueryScripts :
        /\ comp = "query"
        /\ q_pc = "idle"
        /\ q_call' = args
        /\ q_params' = get_markets(args)
        /\ q_sent' = Requested(script, FALSE).sent
        /\ q_exc' = NoExc
        /\ q_pc' = "returned"
        /\ FrameQuery

NextQuery ==
    GetUserPositions \/ GetUserActivity \/ GetUserTrades \/ GetPriceHistory \/ GetMarkets

-----------------------------------------------------------------------------
(* The HTTP sessions: BaseAPIClient.__init__, client, close,               *)
(* CLOBAPIClient.__init__, PolymarketAPI.__init__, PolymarketAPI.close     *)
(* (api.py).  A session is an httpx.Client: [owner, headers, closes], with *)
(* closes the number of times its close() ran; sessions are named by their *)
(* position in c_sessions.                                                 *)

SourceClients == {"gamma", "clob", "data"}

ApiKeys == {"None", "", "secret"}

\* headers={'User-Agent': USER_AGENT, 'Accept': 'application/json'}
DefaultHeaders == [Authorization |-> "None", Accept |-> "application/json"]

\* `if self._client is None` of the property client
NeedsSession_Always(current) == TRUE

NeedsSession(current) == current = 0

\* httpx.Client(base_url=self.base_url, timeout=self.timeout, headers=...)
NewSession(owner) == [owner |-> owner, headers |-> DefaultHeaders, closes |-> 0]

\* CLOBAPIClient.__init__: `if api_key and self._client` sets the
\* Authorization header of the session the client holds at that moment.
ClobInitHeaders(key, current, sessions) ==
    IF key \notin {"None", ""} /\ current # 0
    THEN [sessions EXCEPT ![current].headers.Authorization = "Bearer " \o key]
    ELSE sessions

RequestEvent(client, session, headers) ==
    [kind |-> "request", client |-> client, session |-> session,
     Authorization |-> headers.Authorization]

CloseEvent(kind, client) ==
    [kind |-> kind, client |-> client, session |-> 0, Authorization |-> "None"]

\* BaseAPIClient.close on one client: the sessions and _client after it.
CloseClient(client, clients, sessions) ==
    IF clients[client] # 0
    THEN [clients  |-> [clients EXCEPT ![client] = 0],
          sessions |-> [sessions EXCEPT ![clients[client]].closes = @ + 1]]
    ELSE [clients |-> clients, sessions |-> sessions]

CIdle ==
    /\ c_pc = "idle" /\ api_key = "None" /\ c_client = [c \in SourceClients |-> 0]
    /\ c_sessions = <<>> /\ c_log = <<>>

\* PolymarketAPI(api_key): the three clients are constructed, each with
\* _client = None; CLOBAPIClient.__init__ then looks at its _client.
PolymarketAPIInit ==
    \E key \in ApiKeys :
        /\ comp = "session"
        /\ c_pc = "idle"
        /\ c_pc' = "ready"
        /\ api_key' = key
        /\ c_client' = [c \in SourceClients |-> 0]
        /\ c_sessions' = ClobInitHeaders(key, 0, c_sessions)
        /\ UNCHANGED c_log
        /\ FrameSession

\* One `self.client.request(method, endpoint, **kwargs)` of a client: the
\* property client creates the session when there is none.
ClientRequest ==
    \E client \in SourceClients :
        /\ comp = "session"
        /\ c_pc = "ready"
        /\ Len(c_log) < MaxOps
        /\ LET created  == NeedsSession(c_client[client])
               sessions == IF created THEN Append(c_sessions, NewSession(client)) ELSE c_sessions
               session  == IF created THEN Len(sessions) ELSE c_client[client]
           IN  /\ c_sessions' = sessions
               /\ c_client' = [c_client EXCEPT ![client] = session]
               /\ c_log' = Append(c_log, RequestEvent(client, session, sessions[session].headers))
        /\ UNCHANGED <<c_pc, api_key>>
        /\ FrameSession

\* client.close() on one source client
ClientClose ==
    \E client \in SourceClients :
        /\ comp = "session"
        /\ c_pc = "ready"
        /\ Len(c_log) < MaxOps
        /\ c_client' = CloseClient(client, c_client, c_sessions).clients
        /\ c_sessions' = CloseClient(client, c_client, c_sessions).sessions
        /\ c_log' = Append(c_log, CloseEvent("close", client))
        /\ UNCHANGED <<c_pc, api_key>>
        /\ FrameSession

\* PolymarketAPI.close(): gamma_client, clob_client, data_client in turn
ApiClose ==
    /\ comp = "session"
    /\ c_pc = "ready"
    /\ Len(c_log) < MaxOps
    /\ LET g == CloseClient("gamma", c_client, c_sessions)
           c == CloseClient("clob", g.clients, g.sessions)
           d == CloseClient("data", c.clients, c.sessions)
       IN  /\ c_client' = d.clients
           /\ c_sessions' = d.sessions
    /\ c_log' = Append(c_log, CloseEvent("api_close", "all"))
    /\ UNCHANGED <<c_pc, api_key>>
    /\ FrameSession

NextSession == PolymarketAPIInit \/ ClientRequest \/ ClientClose \/ ApiClose

-----------------------------------------------------------------------------
(* CLOBAPIClient.find_market_by_slug and CLOBAPIClient.get_markets against *)
(* one upstream (api.py).  The upstream is a function from the next_cursor *)
(* parameter of GET /markets ("None": the request carries no parameter) to *)
(* its answer: "failed" (the request raised after its retries), "empty"    *)
(* (the body {}), "nodata" (a non-empty body without 'data') or "page"     *)
(* (a body with the list 'data' and next_cursor; "None": absent or null).  *)
(* An entry of 'data' is [market_slug, condition_id].                      *)

ScanEntry(slug, id) == [market_slug |-> slug, condition_id |-> id]

ScanData ==
    { <<>>,
      <<ScanEntry(<<"c">>, 3)>>,
      <<ScanEntry(<<"c">>, 3), ScanEntry(<<"a">>, 1), ScanEntry(<<"a">>, 2)>>,
      <<ScanEntry(<<"a">>, 2), ScanEntry(<<"a">>, 1)>> }

RequestCursors == {"None", "MQ==", "LTE="}
PageCursors    == {"None", "", "LTE=", "MQ=="}

NoBody(kind) == [kind |-> kind, data |-> <<>>, next_cursor |-> "None"]

ScanAnswers ==
    { NoBody("failed"), NoBody("empty"), NoBody("nodata") }
    \cup [kind : {"page"}, data : ScanData, next_cursor : PageCursors]

Upstreams == [RequestCursors -> ScanAnswers]

\* get_markets(next_cursor): `if next_cursor:` puts the cursor in the
\* parameters; the parameters sent.
GetMarketsParam(cursor) == IF cursor \in {"None", ""} THEN "None" ELSE cursor

\* get_markets(next_cursor): response.json(), or {} when the request raised.
clob_get_markets(up, cursor) ==
    LET answer == up[GetMarketsParam(cursor)]
    IN  IF answer.kind = "failed" THEN NoBody("empty") ELSE answer

\* `if not data or 'data' not in data`
NoPage(data) == data.kind \in {"empty", "nodata"}

\* `return None` of find_market_by_slug
NotFound == [slug |-> <<>>, condition_id |-> 0]

\* Market.from_clob_response(market_data), as far as slug and condition_id
ScanMarket(entry) ==
    [slug |-> entry.market_slug, condition_id |-> entry.condition_id]

\* `for market_data in data['data']: if market_data.get('market_slug') == slug:
\* return Market.from_clob_response(market_data)`; NotFound when the loop ends.
RECURSIVE PageMatch_Last(_, _, _)
PageMatch_Last(data, slug, i) ==
    IF i > Len(data) THEN NotFound
    ELSE LET later == PageMatch_Last(data, slug, i + 1)
         IN  IF later # NotFound THEN later
             ELSE IF data[i].market_slug = slug THEN ScanMarket(data[i])
             ELSE NotFound

RECURSIVE PageMatch(_, _, _)
PageMatch(data, slug, i) ==
    IF i > Len(data) THEN NotFound
    ELSE IF data[i].market_slug = slug THEN ScanMarket(data[i])
    ELSE PageMatch(data, slug, i + 1)

NIdle ==
    /\ scan_pc = "idle" /\ upstream = <<>> /\ scan_slug = <<>>
    /\ scan_cursor = "None" /\ scan_requests = <<>> /\ scan_result = NotFound

\* find_market_by_slug(slug): `next_cursor = None`, against the upstream `up`.
FindMarketBySlug ==
    \E slug \in QuerySlugs, up \in (IF scan_pc = "idle" THEN Upstreams ELSE {}) :
        /\ comp = "scan"
        /\ scan_pc = "idle"
        /\ scan_pc' = "scan"
        /\ upstream' = up
        /\ scan_slug' = slug
        /\ scan_cursor' = "None"
        /\ UNCHANGED <<scan_requests, scan_result>>
        /\ FrameScan

\* One iteration of `while True`: get_markets(next_cursor), the test of the
\* page, the loop over its entries and the test of its next_cursor.
ScanIteration ==
    /\ comp = "scan"
    /\ scan_pc = "scan"
    /\ Len(scan_requests) < MaxScanPages
    /\ scan_requests' = Append(scan_requests, GetMarketsParam(scan_cursor))
    /\ LET data == clob_get_markets(upstream, scan_cursor)
           hit  == PageMatch(data.data, scan_slug, 1)
       IN  IF NoPage(data)
           THEN scan_pc' = "done" /\ scan_result' = NotFound /\ UNCHANGED scan_cursor
           ELSE IF hit # NotFound
           THEN scan_pc' = "done" /\ scan_result' = hit /\ UNCHANGED scan_cursor
           ELSE /\ scan_cursor' = data.next_cursor
                /\ IF CursorEnds(data.next_cursor)
                   THEN scan_pc' = "done" /\ scan_result' = NotFound
                   ELSE UNCHANGED <<scan_pc, scan_result>>
    /\ UNCHANGED <<upstream, scan_slug>>
    /\ FrameScan

NextScan == FindMarketBySlug \/ ScanIteration

-----------------------------------------------------------------------------
(* PolymarketExtractor.extract_from_url, _handle_event_url, _fetch_market, *)
(* _validate_market_tokens, _calculate_time_range (cli/extractor.py);      *)
(* PolymarketURLParser.get_api_slug, is_event_url (parser.py).             *)
(* The calls api.get_market, api.get_event and                             *)
(* _fetch_price_history_with_retry are taken by what they return or raise. *)

\* PolymarketURLParser.get_api_slug(url), for a url that parses
get_api_slug(url) ==
    IF parse(url).type = "market" THEN parse(url).market_slug
    ELSE IF parse(url).type = "event" THEN parse(url).event_slug
    ELSE NoSlug

\* PolymarketURLParser.is_event_url(url)
is_event_url(url) ==
    /\ ~parse(url).raised
    /\ parse(url).type = "event"
    /\ parse(url).market_slug = NoSlug

SingleUrls ==
    { <<>>,
      <<"https:", "//", "example.com", "/", "my-slug">>,
      <<"https:", "//", "polymarket.com">>,
      <<"https:", "//", "polymarket.com", "/", "markets">>,
      <<"https:", "//", "polymarket.com", "/", "event", "/", "my-slug">>,
      <<"https:", "//", "polymarket.com", "/", "event", "/", "my-slug", "/", "a", "%2D", "b">>,
      <<"https:", "//", "polymarket.com", "/", "market", "/", "my-slug">>,
      <<"https:", "//", "www.", "polymarket.com", "/", "my-slug", "?", "q=1">>,
      <<"https:", "//", "polymarket.com", "/", "a", "%2D", "b">>,
      <<"https:", "//", "polymarket.com", "/", "event", "/", "my-slug", "/", "my-slug", "/">>,
      <<"https:", "//", "polymarket.com", "/", "portfolio">> }

NoSingleMarket == EventMarket(NoSlug, [token_ids |-> <<>>, neg_risk |-> FALSE, neg_risk_market_id |-> "None"])

\* What api.get_market(slug) can do: return a market, return None, raise.
GetMarketOutcomes(slug) ==
    { [kind |-> "found", market |-> EventMarket(slug, shape)] : shape \in MarketShapes }
    \cup { [kind |-> "none", market |-> NoSingleMarket], [kind |-> "raise", market |-> NoSingleMarket] }

FetchPending == [kind |-> "pending", isNone |-> FALSE, value |-> <<>>]

Running == [kind |-> "running", price_histories |-> <<>>]

\* `return None` of extract_from_url
ReturnNone == [kind |-> "None", price_histories |-> <<>>]

\* `return data`, data = MarketHistoricalData(market, price_histories)
ReturnData(price_histories) == [kind |-> "data", price_histories |-> price_histories]

\* The `except` clauses of extract_from_url: each reports the error and
\* returns None; MarketNotFoundError adds a tip.
Caught(exception) ==
    [reports |-> IF exception = "MarketNotFoundError" THEN <<"error", "tip">> ELSE <<"error">>,
     result  |-> ReturnNone]

\* _validate_market_tokens(market): the reporter call made, if any
ValidationReport(market) ==
    IF ~NoValidTokens(market) THEN <<>>
    ELSE IF is_inactive_negrisk_option(market) THEN <<"inactive_negrisk_error">>
    ELSE <<"no_tokens_error">>

XIdle ==
    /\ x_pc = "idle" /\ x_url = <<>> /\ x_dates_ok = TRUE /\ x_slug = NoSlug
    /\ x_found = "pending" /\ x_market = NoSingleMarket /\ x_fetch = FetchPending
    /\ x_steps = <<>> /\ x_reports = <<>> /\ x_result = Running

\* extract_from_url(url, ..., start_date, end_date): parser.parse(url), the
\* event branch, and _fetch_market up to its call of api.get_market.
ExtractFromUrl ==
    \E url \in SingleUrls, dates_ok \in BOOLEAN :
        /\ comp = "single"
        /\ x_pc = "idle"
        /\ x_url' = url
        /\ x_dates_ok' = dates_ok
        /\ IF parse(url).raised
           THEN /\ x_steps' = <<"parse">>
                /\ x_reports' = Caught("InvalidURLError").reports
                /\ x_result' = Caught("InvalidURLError").result
                /\ x_pc' = "done"
                /\ UNCHANGED x_slug
           ELSE IF is_event_url(url)
           THEN /\ x_steps' = <<"parse", "event">>
                /\ x_reports' = <<"event">>
                /\ x_result' = ReturnNone
                /\ x_pc' = "done"
                /\ UNCHANGED x_slug
           ELSE /\ x_steps' = <<"parse", "resolve">>
                /\ x_slug' = get_api_slug(url)
                /\ x_pc' = "get_market"
                /\ UNCHANGED <<x_reports, x_result>>
        /\ UNCHANGED <<x_found, x_market, x_fetch>>
        /\ FrameSingle

\* api.get_market(slug) ended in `outcome`: the rest of _fetch_market,
\* reporter.market_summary, _validate_market_tokens, _calculate_time_range,
\* up to the call of api.get_price_history in _fetch_price_history_with_retry.
MarketFetched ==
    \E outcome \in GetMarketOutcomes(x_slug) :
        /\ comp = "single"
        /\ x_pc = "get_market"
        /\ x_found' = outcome.kind
        /\ x_market' = outcome.market
        /\ IF outcome.kind = "raise"
           THEN /\ x_reports' = x_reports \o Caught("Exception").reports
                /\ x_result' = Caught("Exception").result
                /\ x_pc' = "done"
                /\ UNCHANGED x_steps
           ELSE IF outcome.kind = "none"
           THEN /\ x_reports' = x_reports \o Caught("MarketNotFoundError").reports
                /\ x_result' = Caught("MarketNotFoundError").result
                /\ x_pc' = "done"
                /\ UNCHANGED x_steps
           ELSE IF NoValidTokens(outcome.market)
           THEN /\ x_steps' = Append(x_steps, "validate")
                /\ x_reports' = x_reports \o <<"market_summary">> \o ValidationReport(outcome.market)
                /\ x_result' = ReturnNone
                /\ x_pc' = "done"
           ELSE IF ~x_dates_ok
           THEN /\ x_steps' = x_steps \o <<"validate", "time_range">>
                /\ x_reports' = x_reports \o <<"market_summary">> \o Caught("ValueError").reports
                /\ x_result' = Caught("ValueError").result
                /\ x_pc' = "done"
           ELSE /\ x_steps' = x_steps \o <<"validate", "time_range", "fetch">>
                /\ x_reports' = Append(x_reports, "market_summary")
                /\ x_pc' = "fetch"
                /\ UNCHANGED x_result
        /\ UNCHANGED <<x_url, x_dates_ok, x_slug, x_fetch>>
        /\ FrameSingle

\* _fetch_price_history_with_retry ended in `outcome`: `if not
\* price_histories`, MarketHistoricalData(...), the summaries, `return data`.
PriceHistoryFetched ==
    \E outcome \in FetchOutcomes :
        /\ comp = "single"
        /\ x_pc = "fetch"
        /\ x_fetch' = outcome
        /\ x_pc' = "done"
        /\ IF outcome.kind = "raise"
           THEN /\ x_reports' = x_reports \o Caught("Exception").reports
                /\ x_result' = Caught("Exception").result
           ELSE IF outcome.isNone
           THEN /\ x_reports' = Append(x_reports, "warning")
                /\ x_result' = ReturnNone
           ELSE /\ x_reports' = Append(x_reports, "price_history_summary")
                /\ x_result' = ReturnData(outcome.value)
        /\ UNCHANGED <<x_url, x_dates_ok, x_slug, x_found, x_market, x_steps>>
        /\ FrameSingle

NextSingle == ExtractFromUrl \/ MarketFetched \/ PriceHistoryFetched

----------------------------------------------------------------------------
InitRequest == comp = "request" /\ RqIdle /\ FIdle /\ RIdle /\ MIdle /\ EIdle /\ SIdle /\ PIdle /\ KIdle /\ OIdle /\ IIdle /\ QIdle /\ CIdle /\ NIdle /\ XIdle

SpecRequest == InitRequest /\ [][NextRequest]_vars

InitFetch == comp = "fetch" /\ RqIdle /\ FIdle /\ RIdle /\ MIdle /\ EIdle /\ SIdle /\ PIdle /\ KIdle /\ OIdle /\ IIdle /\ QIdle /\ CIdle /\ NIdle /\ XIdle

SpecFetch == InitFetch /\ [][NextFetch]_vars

InitResolve == comp = "resolve" /\ RqIdle /\ FIdle /\ RIdle /\ MIdle /\ EIdle /\ SIdle /\ PIdle /\ KIdle /\ OIdle /\ IIdle /\ QIdle /\ CIdle /\ NIdle /\ XIdle

SpecResolve == InitResolve /\ [][NextResolve]_vars

InitMerge == comp = "merge" /\ RqIdle /\ FIdle /\ RIdle /\ MIdle /\ EIdle /\ SIdle /\ PIdle /\ KIdle /\ OIdle /\ IIdle /\ QIdle /\ CIdle /\ NIdle /\ XIdle

SpecMerge == InitMerge /\ [][NextMerge]_vars

InitEvent == comp = "event" /\ RqIdle /\ FIdle /\ RIdle /\ MIdle /\ EIdle /\ SIdle /\ PIdle /\ KIdle /\ OIdle /\ IIdle /\ QIdle /\ CIdle /\ NIdle /\ XIdle

SpecEvent == InitEvent /\ [][NextEvent]_vars

InitSearch == comp = "search" /\ RqIdle /\ FIdle /\ RIdle /\ MIdle /\ EIdle /\ SIdle /\ PIdle /\ KIdle /\ OIdle /\ IIdle /\ QIdle /\ CIdle /\ NIdle /\ XIdle

SpecSearch == InitSearch /\ [][NextSearch]_vars

InitParse == comp = "parse" /\ RqIdle /\ FIdle /\ RIdle /\ MIdle /\ EIdle /\ SIdle /\ PIdle /\ KIdle /\ OIdle /\ IIdle /\ QIdle /\ CIdle /\ NIdle /\ XIdle

SpecParse == InitParse /\ [][NextParse]_vars

InitMarket == comp = "market" /\ RqIdle /\ FIdle /\ RIdle /\ MIdle /\ EIdle /\ SIdle /\ PIdle /\ KIdle /\ OIdle /\ IIdle /\ QIdle /\ CIdle /\ NIdle /\ XIdle

SpecMarket == InitMarket /\ [][NextMarket]_vars

InitBook == comp = "book" /\ RqIdle /\ FIdle /\ RIdle /\ MIdle /\ EIdle /\ SIdle /\ PIdle /\ KIdle /\ OIdle /\ IIdle /\ QIdle /\ CIdle /\ NIdle /\ XIdle

SpecBook == InitBook /\ [][NextBook]_vars

InitImpact == comp = "impact" /\ RqIdle /\ FIdle /\ RIdle /\ MIdle /\ EIdle /\ SIdle /\ PIdle /\ KIdle /\ OIdle /\ IIdle /\ QIdle /\ CIdle /\ NIdle /\ XIdle

SpecImpact == InitImpact /\ [][NextImpact]_vars

InitQuery == comp = "query" /\ RqIdle /\ FIdle /\ RIdle /\ MIdle /\ EIdle /\ SIdle /\ PIdle /\ KIdle /\ OIdle /\ IIdle /\ QIdle /\ CIdle /\ NIdle /\ XIdle

SpecQuery == InitQuery /\ [][NextQuery]_vars

InitSession == comp = "session" /\ RqIdle /\ FIdle /\ RIdle /\ MIdle /\ EIdle /\ SIdle /\ PIdle /\ KIdle /\ OIdle /\ IIdle /\ QIdle /\ CIdle /\ NIdle /\ XIdle

SpecSession == InitSession /\ [][NextSession]_vars

InitScan == comp = "scan" /\ RqIdle /\ FIdle /\ RIdle /\ MIdle /\ EIdle /\ SIdle /\ PIdle /\ KIdle /\ OIdle /\ IIdle /\ QIdle /\ CIdle /\ NIdle /\ XIdle

SpecScan == InitScan /\ [][NextScan]_vars

\* The loop of find_market_by_slug runs on: each iteration is followed by the
\* next one unless the method returned.
SpecScanLive == SpecScan /\ WF_vars(ScanIteration)

InitSingle == comp = "single" /\ RqIdle /\ FIdle /\ RIdle /\ MIdle /\ EIdle /\ SIdle /\ PIdle /\ KIdle /\ OIdle /\ IIdle /\ QIdle /\ CIdle /\ NIdle /\ XIdle

SpecSingle == InitSingle /\ [][NextSingle]_vars

Init == InitRequest \/ InitFetch \/ InitResolve \/ InitMerge \/ InitEvent \/ InitSearch \/ InitParse
            \/ InitMarket \/ InitBook \/ InitImpact
            \/ InitQuery \/ InitSession \/ InitScan \/ InitSingle

Next == NextRequest \/ NextFetch \/ NextResolve \/ NextMerge \/ NextEvent \/ NextSearch \/ NextParse
            \/ NextMarket \/ NextBook \/ NextImpact
            \/ NextQuery \/ NextSession \/ NextScan \/ NextSingle

Spec == Init /\ [][Next]_vars

----------------------------------------------------------------------------
(* Properties of the request primitive *)

Is429(resp) == resp.kind = "status" /\ resp.code = 429

\* C7: one call of the request primitive sends at most CONFIG_MAX_RETRIES
\* (3) HTTP requests, each with the call's own parameters; the wait after
\* the failure of attempt k (counted from 0) is RETRY_DELAY after a
\* transport failure and RETRY_DELAY * 2^k after an HTTP 429; and when the
\* last allowed attempt fails the call raises RateLimitError (429) or
\* APIError (transport) with no wait after that failure.
C7_RetryBackoff ==
    /\ Len(rq_sent) <= CONFIG_MAX_RETRIES
    /\ \A i \in DOMAIN rq_sent : rq_sent[i] = rq_params
    /\ Len(rq_waits) <= CONFIG_MAX_RETRIES - 1
    /\ \A i \in DOMAIN rq_waits :
          /\ rq_resps[i] \in TransientResponses
          /\ rq_waits[i] = IF Is429(rq_resps[i])
                           THEN RETRY_DELAY * (2 ^ (i - 1))
                           ELSE RETRY_DELAY
    /\ (Len(rq_resps) = CONFIG_MAX_RETRIES
            /\ rq_resps[CONFIG_MAX_RETRIES] \in TransientResponses)
        => /\ rq_pc = "raised"
           /\ rq_result.type = IF Is429(rq_resps[CONFIG_MAX_RETRIES])
                               THEN "RateLimitError" ELSE "APIError"
           /\ Len(rq_waits) = CONFIG_MAX_RETRIES - 1

\* A call that met a transport failure, then two 429s: it waited 1 then 2
\* and raised RateLimitError after the third request.
C7_Witness ==
    /\ rq_pc = "raised"
    /\ Len(rq_resps) = 3
    /\ rq_resps[1] = RespTransport
    /\ Is429(rq_resps[2]) /\ Is429(rq_resps[3])
    /\ rq_waits = <<RETRY_DELAY, 2 * RETRY_DELAY>>
    /\ rq_result = RateLimitError

----------------------------------------------------------------------------
(* Properties of the price-history fetch loop *)

TooLongFailure(entry) == entry.kind = "raise" /\ MsgTooLong(entry.exc)

Span(entry) == entry.end_ts - entry.start_ts

\* C2: whenever an attempt of the fetch loop fails with an error whose
\* message contains "interval is too long" and another attempt follows,
\* the next attempt is for the same market and interval, with
\* start_ts = end_ts - (end_ts - start_ts) // 2 of the failed attempt and
\* the same end_ts.
C2_NarrowedRetry ==
    \A k \in 1..(Len(f_log) - 1) :
        TooLongFailure(f_log[k]) =>
            /\ f_log[k + 1].market = f_log[k].market
            /\ f_log[k + 1].interval = f_log[k].interval
            /\ f_log[k + 1].start_ts =
                   f_log[k].end_ts - ((f_log[k].end_ts - f_log[k].start_ts) \div 2)
            /\ f_log[k + 1].end_ts = f_log[k].end_ts

\* The scenario of test_retry_logic_on_interval_too_long: a too-long failure
\* on a window of odd span, then a success on the narrowed window.
C2_Witness ==
    /\ f_pc = "done"
    /\ Len(f_log) = 2
    /\ TooLongFailure(f_log[1])
    /\ Span(f_log[1]) = 3
    /\ f_log[2].start_ts = f_log[1].start_ts + 2
    /\ f_log[2].kind = "return"
    /\ f_result.kind = "return" /\ ~f_result.isNone

\* C3: an upstream rejection of a price-history request whose error text
\* contains "interval is too long" reaches the fetch loop as a failure with
\* that text (not as a missing history or "no data") and is answered by a
\* narrowed retry while a retry slot remains, else raised to the caller.
C3_TooLongRejectionNarrows ==
    \A k \in DOMAIN f_log :
        (\E i \in DOMAIN f_log[k].upstream : f_log[k].upstream[i].rejected_too_long)
        => /\ TooLongFailure(f_log[k])
           /\ IF k < MAX_RETRIES
              THEN \/ Len(f_log) > k
                   \/ /\ f_pc = "loop"
                      /\ current_start = f_log[k].end_ts - (Span(f_log[k]) \div 2)
                      /\ current_end = f_log[k].end_ts
              ELSE f_result.kind = "raise"

\* C4: in a fetch that starts with start_ts <= end_ts, every attempt keeps
\* the original end_ts, the first attempt uses the original start_ts, the
\* requested start_ts never decreases and never exceeds end_ts, and each
\* narrowed span is floor(previous span / 2).
C4_AnchoredAtEnd ==
    f_start <= f_end =>
        /\ current_end = f_end
        /\ \A k \in DOMAIN f_log :
              /\ f_log[k].end_ts = f_end
              /\ f_log[k].start_ts <= f_log[k].end_ts
              /\ k = 1 => f_log[k].start_ts = f_start
              /\ k > 1 => /\ f_log[k - 1].start_ts <= f_log[k].start_ts
                          /\ Span(f_log[k]) = Span(f_log[k - 1]) \div 2

\* Two narrowings of a window of span 4: spans 4, 2, 1, the start moving
\* towards the fixed end each time.
C4_Witness ==
    /\ f_start = 0 /\ f_end = 4
    /\ Len(f_log) = 3
    /\ f_log[1].start_ts = 0 /\ f_log[2].start_ts = 2 /\ f_log[3].start_ts = 3
    /\ f_log[3].end_ts = 4

RECURSIVE SentTo(_, _)
\* The HTTP requests the logged attempts sent for the i-th token.
SentTo(i, k) ==
    IF k = 0 THEN 0
    ELSE SentTo(i, k - 1)
         + (IF i \in DOMAIN f_log[k].upstream THEN f_log[k].upstream[i].sent ELSE 0)

\* C5: one fetch calls the history request at most MAX_RETRIES (3) times;
\* every narrowing takes one slot (retry_count counts the narrowings, at
\* most 2, and every attempt but the last was narrowed); a too-long failure
\* of the attempt that uses the last slot is raised to the caller.  No
\* token is sent more than 3 HTTP requests either.
C5_RetryCeiling ==
    /\ Len(f_log) <= MAX_RETRIES
    /\ retry_count <= MAX_RETRIES - 1
    /\ Len(f_log) = retry_count + (IF f_pc = "done" THEN 1 ELSE 0)
    /\ \A k \in 1..(Len(f_log) - 1) : TooLongFailure(f_log[k])
    /\ (Len(f_log) = MAX_RETRIES /\ TooLongFailure(f_log[MAX_RETRIES]))
        => /\ f_pc = "done"
           /\ f_result.kind = "raise"
           /\ f_result.exc = f_log[MAX_RETRIES].exc
    /\ \A i \in 1..2 : SentTo(i, Len(f_log)) <= MAX_RETRIES

\* Three too-long failures in a row: two narrowings, then the third failure
\* is raised.
C5_Witness ==
    /\ f_pc = "done"
    /\ Len(f_log) = MAX_RETRIES
    /\ retry_count = MAX_RETRIES - 1
    /\ TooLongFailure(f_log[MAX_RETRIES])
    /\ f_result.kind = "raise" /\ MsgTooLong(f_result.exc)

\* C6: a token's request that fails with a transport or rate-limit error on
\* every attempt up to the ceiling makes the fetch fail: the error reaches
\* the caller of the fetch, which therefore neither reports "no data" (None)
\* nor returns a mapping from which that outcome is missing.
C6_ExhaustedFailurePropagates ==
    \A k \in DOMAIN f_log :
        (\E i \in DOMAIN f_log[k].upstream : f_log[k].upstream[i].exhausted)
            => /\ f_log[k].kind = "raise"
               /\ f_pc = "done" => f_result.kind = "raise"

----------------------------------------------------------------------------
(* Properties of the unified resolver *)

GammaCalls == { i \in DOMAIN r_calls : r_calls[i].client = "gamma" }
ClobCalls  == { i \in DOMAIN r_calls : r_calls[i].client = "clob" }

\* C1: get_market queries the CLOB client first, and the Gamma client only
\* after the CLOB scan ended without a market; a market found by the CLOB
\* client is returned without any Gamma request; otherwise Gamma is
\* queried and its market returned; the result is None only when both
\* clients returned None.
C1_ClobFirstThenGamma ==
    /\ r_calls # <<>> => r_calls[1].client = "clob"
    /\ \A i \in ClobCalls, j \in GammaCalls : i < j
    /\ GammaCalls # {} => r_clob = NoMarket /\ r_pc \in {"gamma_scan", "done"}
    /\ r_pc = "done" =>
          /\ ClobCalls # {}
          /\ r_clob # NoMarket => r_result = r_clob /\ GammaCalls = {}
          /\ r_clob = NoMarket => r_result = r_gamma /\ GammaCalls # {}
          /\ r_result = NoMarket <=> (r_clob = NoMarket /\ r_gamma = NoMarket)

\* A market absent from the CLOB listing and present in Gamma is returned
\* with the requested slug.
C1_Witness ==
    /\ r_pc = "done"
    /\ r_clob = NoMarket
    /\ GammaCalls # {}
    /\ r_result = GammaMarket(r_slug)

IsGammaCall(call) == call.client = "gamma"

\* The positions, in a Gamma listing, of the markets whose slug equals or
\* contains the requested slug.
ListedMatches(listing) ==
    { j \in DOMAIN listing : listing[j] = r_slug \/ Contains(listing[j], r_slug) }

----------------------------------------------------------------------------
(* Properties of the merges *)

CellOf(row, c) == IF c \in DOMAIN row.cells THEN row.cells[c] ELSE Missing

\* A cell as a CSV export writes it: prices rounded to PRICE_PRECISION.
Exported(cell) == IF cell.has THEN Val(Round(cell.v, PRICE_PRECISION)) ELSE cell

\* C8: for one EventHistoricalData the streaming merge (the rows
\* stream_event_to_csv writes, the rows iterate_event_rows yields) and the
\* in-memory merge produce identical rows: the same timestamps in the same
\* order and, in every row and column, the same value or both missing.
C8_StreamingEqualsInMemory ==
    (m_pc = "event" /\ m_mem.run /\ m_csv.run /\ m_iter.run) =>
        /\ ~m_mem.raised
        /\ Len(m_csv.rows) = Len(m_mem.rows)
        /\ Len(m_iter.rows) = Len(m_mem.rows)
        /\ \A i \in DOMAIN m_mem.rows :
              /\ i \in DOMAIN m_csv.rows =>
                    /\ m_csv.rows[i].t = isoformat(m_mem.rows[i].t)
                    /\ \A c \in m_mem.cols \cup m_csv.cols :
                          CellOf(m_csv.rows[i], c) = Exported(CellOf(m_mem.rows[i], c))
              /\ i \in DOMAIN m_iter.rows =>
                    /\ m_iter.rows[i].t = m_mem.rows[i].t
                    /\ \A c \in m_mem.cols \cup m_iter.cols :
                          CellOf(m_iter.rows[i], c) = CellOf(m_mem.rows[i], c)

\* The timestamps observed by any outcome of the merged dict.
ObservedTimes ==
    UNION { { m_histories[i].points[j].t : j \in DOMAIN m_histories[i].points } :
            i \in DOMAIN m_histories }

\* The most recent observation of a series at or before T, Missing if none.
LastObserved(points, T) ==
    LET seen == { j \in DOMAIN points : points[j].t <= T }
    IN IF seen = {} THEN Missing
       ELSE Val(points[CHOOSE j \in seen : \A k \in seen : k <= j].p)

\* C9: the merged output of merge_price_histories has exactly one row per
\* distinct timestamp observed by any series, in increasing timestamp order;
\* the row at T carries for every outcome its most recent observed value at
\* or before T, and the missing marker only when the outcome has no
\* observation at or before T.
C9_OneRowPerTimestampForwardFilled ==
    (m_pc = "single" /\ m_frame.run) =>
        /\ ~m_frame.raised
        /\ [i \in DOMAIN m_frame.rows |-> m_frame.rows[i].t] = SortedSeq(ObservedTimes)
        /\ \A i \in DOMAIN m_frame.rows : \A h \in DOMAIN m_histories :
              CellOf(m_frame.rows[i], PriceColumn(m_histories[h].outcome))
                 = LastObserved(m_histories[h].points, m_frame.rows[i].t)

----------------------------------------------------------------------------
(* Properties of event extraction *)

\* The market has no token id, or only empty ones.
AllTokensEmpty(market) == \A i \in DOMAIN market.token_ids : market.token_ids[i] = ""

FetchedAt(pos) == \E i \in DOMAIN e_fetches : e_fetches[i].pos = pos
StoredAt(pos)  == \E sl \in DOMAIN market_data : market_data[sl].pos = pos
SkippedAt(pos) ==
    \E i \in DOMAIN e_skips :
        /\ e_skips[i].pos = pos
        /\ e_skips[i].reason \in {"Inactive negRisk option (placeholder)",
                                  "No tradeable tokens available"}

\* The fetch for the market at pos returned series with price points.
ReturnedData(pos) ==
    \E i \in DOMAIN e_fetches :
        /\ e_fetches[i].pos = pos
        /\ e_fetches[i].outcome.kind = "return"
        /\ \E o \in DOMAIN e_fetches[i].outcome.value : e_fetches[i].outcome.value[o] = "points"

\* An event of 3 markets, exactly one without valid tokens, the other two
\* returning data.
ThreeMarketsOneEmpty ==
    /\ e_pc = "done"
    /\ Len(e_markets) = 3
    /\ Cardinality({ pos \in DOMAIN e_markets : AllTokensEmpty(e_markets[pos]) }) = 1
    /\ \A pos \in DOMAIN e_markets : ~AllTokensEmpty(e_markets[pos]) => ReturnedData(pos)

DataMarketsDistinctSlugs ==
    \A a, b \in DOMAIN e_markets :
        (a # b /\ ~AllTokensEmpty(e_markets[a]) /\ ~AllTokensEmpty(e_markets[b]))
            => e_markets[a].slug # e_markets[b].slug

TokenlessNeverFetched ==
    \A pos \in DOMAIN e_markets :
        AllTokensEmpty(e_markets[pos]) =>
            /\ ~FetchedAt(pos)
            /\ ~StoredAt(pos)
            /\ pos <= e_i => SkippedAt(pos)

\* C10, whatever the slugs of the markets: a market of an event whose token
\* ids are all empty (or that has none) gets no price-history request, is
\* never stored in market_data and is reported as skipped with a reason; an
\* event of 3 markets of which exactly one has empty token ids and the other
\* two return data yields total_markets = 2.
C10_AsStated ==
    /\ TokenlessNeverFetched
    /\ ThreeMarketsOneEmpty => (~e_result.isNone /\ e_result.total_markets = 2)

\* C10: a market of an event whose token ids are all empty (or that has
\* none) gets no price-history request, is never stored in market_data and
\* is reported as skipped with a reason; an event of 3 markets of which
\* exactly one has empty token ids and the other two have different slugs
\* and return data yields total_markets = 2.
C10_TokenlessSkipped ==
    /\ TokenlessNeverFetched
    /\ (ThreeMarketsOneEmpty /\ DataMarketsDistinctSlugs) =>
          (~e_result.isNone /\ e_result.total_markets = 2)

C10_Witness ==
    /\ ThreeMarketsOneEmpty
    /\ DataMarketsDistinctSlugs
    /\ \E pos \in DOMAIN e_markets :
          /\ e_markets[pos].token_ids = <<"", "">>
          /\ SkippedAt(pos)
          /\ ~FetchedAt(pos)
    /\ e_result.total_markets = 2

\* The turns of the loop, by position: the fetches and the skips.
TurnsAt(pos) ==
    Cardinality({ i \in DOMAIN e_fetches : e_fetches[i].pos = pos })
      + Cardinality({ i \in DOMAIN e_skips : e_skips[i].pos = pos })

\* The fetch for the market at pos returned a non-empty dict.
FetchReturned(pos) ==
    \E i \in DOMAIN e_fetches :
        /\ e_fetches[i].pos = pos
        /\ e_fetches[i].outcome.kind = "return"
        /\ ~e_fetches[i].outcome.isNone

C12_SucceedsWhenAnyCounted ==
    (e_pc = "done" /\ e_result.returned) =>
        /\ successful >= 1 => ~e_result.isNone
        /\ e_result.isNone =>
              \/ e_markets = <<>>
              \/ \A pos \in DOMAIN e_markets : ~ReturnedData(pos)

\* C25: total_markets is the number of markets with data: every entry
\* that the extraction stores in market_data has at least one outcome with
\* at least one price point, so that a market whose requests all succeeded
\* with empty series is neither stored nor counted as successful.
C25_StoredMarketsHaveData ==
    /\ \A sl \in DOMAIN market_data : MarketHasData(market_data[sl])
    /\ (e_pc = "done" /\ e_result.returned /\ e_markets # <<>>) =>
          e_result.total_markets = Cardinality({ sl \in DOMAIN market_data : MarketHasData(market_data[sl]) })

\* The fetches that returned a non-empty dict, the fetches that failed.
FetchesStored == { i \in DOMAIN e_fetches : e_fetches[i].outcome.kind = "return" /\ ~e_fetches[i].outcome.isNone }

FetchesFailed == DOMAIN e_fetches \ FetchesStored

DistinctSlugs == \A i, j \in DOMAIN e_markets : i # j => e_markets[i].slug # e_markets[j].slug

\* C29: when the extraction loop returns, successful + failed is the
\* number of markets of the event: each market had one turn, which
\* incremented one of the two counters once (a skipped token-less market
\* counting as failed), and, when the slugs of the markets are distinct,
\* successful is the number of entries added to market_data.
C29_CountersAddUp ==
    e_pc = "done" =>
        /\ successful + failed = Len(e_markets)
        /\ \A pos \in DOMAIN e_markets : TurnsAt(pos) = 1
        /\ successful = Cardinality(FetchesStored)
        /\ failed = Cardinality(FetchesFailed) + Len(e_skips)
        /\ DistinctSlugs => successful = Cardinality(DOMAIN market_data)

\* Three markets with distinct slugs: one skipped, one whose fetch failed,
\* one stored; successful = 1 and failed = 2.
C29_Witness ==
    /\ e_pc = "done"
    /\ Len(e_markets) = 3
    /\ DistinctSlugs
    /\ Len(e_skips) = 1
    /\ Cardinality(FetchesFailed) = 1
    /\ successful = 1 /\ failed = 2
    /\ Cardinality(DOMAIN market_data) = 1

----------------------------------------------------------------------------
(* Properties of the unified search *)

ClobSlugs == { clob_results[i].slug : i \in DOMAIN clob_results }

\* How often a slug occurs in a list of markets.
Occurrences(markets, slug) == Cardinality({ i \in DOMAIN markets : markets[i].slug = slug })

\* The Gamma results whose slug is not among the CLOB results, in order.
RECURSIVE NewFromGamma(_)
NewFromGamma(i) ==
    IF i > Len(gamma_results) THEN <<>>
    ELSE (IF gamma_results[i].slug \in ClobSlugs THEN <<>> ELSE <<gamma_results[i]>>)
         \o NewFromGamma(i + 1)

\* The trading client is searched first, with the limit; the metadata client
\* only when the trading client returned fewer than limit results; the
\* result has at most limit markets: the trading-client results in their
\* order, then the metadata-client results whose slug is not among them.
SearchOrderAndMerge ==
    /\ s_calls # <<>> => s_calls[1] = [client |-> "clob", limit |-> s_limit]
    /\ \A i \in DOMAIN s_calls : i > 1 =>
          /\ s_calls[i].client = "gamma"
          /\ i = 2
          /\ Len(clob_results) < s_limit
          /\ s_pc = "done"
    /\ s_pc = "done" =>
          /\ Len(s_calls) = (IF Len(clob_results) < s_limit THEN 2 ELSE 1)
          /\ Len(s_result) <= s_limit
          /\ s_result = clob_results \o NewFromGamma(1)

\* C13, with its conclusion read for any trading-client results: as above,
\* and no slug obtained from the first source occurs twice in the result.
C13_NoFirstSourceSlugTwice ==
    /\ SearchOrderAndMerge
    /\ s_pc = "done" => \A slug \in ClobSlugs : Occurrences(s_result, slug) = 1

\* C13: as above, and no slug obtained from the first source is added again
\* from the second: it occurs in the result as often as in the
\* trading-client results.
C13_SearchMerge ==
    /\ SearchOrderAndMerge
    /\ s_pc = "done" =>
          \A slug \in ClobSlugs : Occurrences(s_result, slug) = Occurrences(clob_results, slug)

\* The metadata client returned a market whose slug the trading client had
\* found and one it had not; only the latter was appended.
C13_Witness ==
    /\ s_pc = "done"
    /\ Len(s_calls) = 2
    /\ clob_results # <<>>
    /\ \E i \in DOMAIN gamma_results : gamma_results[i].slug \in ClobSlugs
    /\ \E i \in DOMAIN s_result : s_result[i].source = "gamma"
    /\ Len(s_result) = Len(clob_results) + 1

----------------------------------------------------------------------------
(* Properties of the URL parser *)

p_parsed == urlparse(p_url)

\* The segments of the url's path, each the run between two "/".
RECURSIVE SegmentsOf(_)
SegmentsOf(path) ==
    IF path = <<>> THEN <<>>
    ELSE IF Head(path) = "/" THEN SegmentsOf(Tail(path))
    ELSE <<RunFrom(path, 1)>> \o SegmentsOf(SubSeq(path, Len(RunFrom(path, 1)) + 1, Len(path)))

p_segments == SegmentsOf(p_parsed.path)

\* The host is polymarket.com or a name under it.
PolymarketHost(netloc) ==
    netloc = <<"polymarket.com">> \/ netloc = <<"www.", "polymarket.com">>

ReservedWords ==
    { <<"markets">>, <<"leaderboard">>, <<"about">>, <<"docs">>, <<"help">>, <<"portfolio">> }

\* C14: parse raises the invalid-locator error, and returns no descriptor,
\* for empty input, for a host that is not the Polymarket domain, for the
\* bare root path, and for a single path segment that is one of markets,
\* leaderboard, about, docs, help, portfolio.
C14_RejectsInvalidLocators ==
    p_pc = "done" =>
        /\ p_url = <<>> => p_result.raised
        /\ ~PolymarketHost(p_parsed.netloc) => p_result.raised
        /\ p_segments = <<>> => p_result.raised
        /\ (Len(p_segments) = 1 /\ unquote(p_segments[1]) \in ReservedWords) => p_result.raised

\* A segment with its percent escapes replaced by the characters they denote.
PercentDecoded(seg) ==
    [i \in DOMAIN seg |-> IF seg[i] = "%2D" THEN "-" ELSE IF seg[i] = "%20" THEN " " ELSE seg[i]]

\* C15: an accepted locator gives exactly one of three shapes, the path
\* shapes being applied in priority order: /event/{e}/{m} gives type market
\* with event_slug e and market_slug m; /event/{e} alone gives type event
\* with event_slug e and no market slug; otherwise /market/{m} gives
\* market_slug m; otherwise a single non-reserved segment s gives
\* market_slug s; every slug is percent-decoded.
C15_PathShapes ==
    (p_pc = "done" /\ ~p_result.raised) =>
        /\ \/ p_result.type = "market" /\ p_result.event_slug # NoSlug /\ p_result.market_slug # NoSlug
           \/ p_result.type = "event" /\ p_result.event_slug # NoSlug /\ p_result.market_slug = NoSlug
           \/ p_result.type = "market" /\ p_result.event_slug = NoSlug /\ p_result.market_slug # NoSlug
        /\ (Len(p_segments) = 3 /\ p_segments[1] = <<"event">>) =>
              /\ p_result.type = "market"
              /\ p_result.event_slug = PercentDecoded(p_segments[2])
              /\ p_result.market_slug = PercentDecoded(p_segments[3])
        /\ (Len(p_segments) = 2 /\ p_segments[1] = <<"event">>) =>
              /\ p_result.type = "event"
              /\ p_result.event_slug = PercentDecoded(p_segments[2])
              /\ p_result.market_slug = NoSlug
        /\ (Len(p_segments) = 2 /\ p_segments[1] = <<"market">>) =>
              /\ p_result.type = "market"
              /\ p_result.event_slug = NoSlug
              /\ p_result.market_slug = PercentDecoded(p_segments[2])
        /\ (Len(p_segments) = 1 /\ PercentDecoded(p_segments[1]) \notin ReservedWords) =>
              /\ p_result.type = "market"
              /\ p_result.event_slug = NoSlug
              /\ p_result.market_slug = PercentDecoded(p_segments[1])

\* /event/a%2Db/my-slug parsed to the event "a-b" and the market "my-slug".
C15_Witness ==
    /\ p_pc = "done"
    /\ ~p_result.raised
    /\ p_segments = << <<"event">>, <<"a", "%2D", "b">>, <<"my-slug">> >>
    /\ p_result.event_slug = <<"a", "-", "b">>
    /\ p_result.market_slug = <<"my-slug">>

-----------------------------------------------------------------------------
(* Properties of Market construction *)

MarketBuilt == k_pc \in {"built", "asked"}

\* C16: every Market constructed by from_clob_response or by
\* from_gamma_response has as many outcomes as token ids
\* (len(outcomes) == len(token_ids)), the two lists being aligned by
\* position.
C16_OutcomesMatchTokenIds ==
    MarketBuilt => Len(k_market.outcomes) = Len(k_market.token_ids)

\* C17: for every Market m, is_inactive_negrisk_option(m) is true exactly
\* when m.neg_risk is set, m.neg_risk_market_id is set and every entry of
\* m.token_ids is empty; it is false for a market with at least one
\* non-empty token id, whatever neg_risk is.
C17_InactiveNegriskOption ==
    k_pc = "asked" =>
        /\ k_inactive <=> /\ k_market.neg_risk
                          /\ k_market.neg_risk_market_id # "None"
                          /\ \A i \in DOMAIN k_market.token_ids : k_market.token_ids[i] = ""
        /\ (\E i \in DOMAIN k_market.token_ids : k_market.token_ids[i] # "") => ~k_inactive

\* A negRisk option of group "grp" whose two token ids are empty was found
\* inactive.
C17_Witness ==
    /\ k_pc = "asked"
    /\ k_inactive
    /\ k_market.neg_risk
    /\ k_market.neg_risk_market_id = "grp"
    /\ k_market.token_ids = <<"", "">>

\* The payload's slug and condition id, under the key names of its API.
SourceSlug == IF k_source = "gamma" THEN k_data.slug ELSE k_data.market_slug

SourceConditionId == IF k_source = "gamma" THEN k_data.conditionId ELSE k_data.condition_id

\* C18: for a Market constructed from a payload of either API, reading back
\* slug, condition_id and volume gives the values of the payload, a numeric
\* string being read back as the float it denotes.
C18_RoundTrip ==
    MarketBuilt =>
        /\ SourceSlug.kind # "absent" => k_market.slug = SourceSlug
        /\ SourceConditionId.kind # "absent" => k_market.condition_id = SourceConditionId
        /\ k_data.volume.kind = "num" => k_market.volume = Float(k_data.volume.n)
        /\ (k_data.volume.kind = "str" /\ IsNumeral(k_data.volume.s)) =>
              k_market.volume = Float(Numeral(k_data.volume.s))

-----------------------------------------------------------------------------
(* Properties of the order book *)

BookBuilt == o_pc \in {"built", "read"}

\* The prices of the payload's levels on one side, as Decimals.
PayloadPrices(levels) == { Decimal(levels[i][1]) : i \in DOMAIN levels }

\* C19: every constructed OrderBook has bids sorted non-increasing by price
\* and asks sorted non-decreasing by price, whatever the order of the
\* levels in the payload, so that bids[0] is the highest bid and asks[0]
\* the lowest ask.
C19_BookSorted ==
    BookBuilt =>
        /\ Len(bids) = Len(o_data.bids) /\ Len(asks) = Len(o_data.asks)
        /\ \A i, j \in DOMAIN bids : i < j => bids[i].price >= bids[j].price
        /\ \A i, j \in DOMAIN asks : i < j => asks[i].price <= asks[j].price
        /\ bids # <<>> => /\ bids[1].price \in PayloadPrices(o_data.bids)
                          /\ \A p \in PayloadPrices(o_data.bids) : p <= bids[1].price
        /\ asks # <<>> => /\ asks[1].price \in PayloadPrices(o_data.asks)
                          /\ \A p \in PayloadPrices(o_data.asks) : p >= asks[1].price

\* A book built from bids listed as 0.4, 0.7 and asks listed as 0.7, 0.5:
\* the best bid is 0.7 and the best ask 0.5.
C19_Witness ==
    /\ BookBuilt
    /\ Len(o_data.bids) = 2 /\ o_data.bids[1][1] = <<"0", ".", "4">> /\ o_data.bids[2][1] = <<"0", ".", "7">>
    /\ Len(o_data.asks) = 2 /\ o_data.asks[1][1] = <<"0", ".", "7">> /\ o_data.asks[2][1] = <<"0", ".", "5">>
    /\ bids[1].price = 14
    /\ asks[1].price = 10

-----------------------------------------------------------------------------
(* Properties of the market impact *)

ImpactAsked == comp = "impact" /\ o_pc = "asked"

\* The levels of the side that was asked.
AskedLevels == IF i_side = "buy" THEN asks ELSE bids

\* C21, for every side of every book: a requested size equal to the total
\* size available on the side returns a result whose levels_consumed is
\* the number of levels of the side; a requested size one unit larger
\* returns None, with no partial result.
C21_ImpactAtTotal ==
    ImpactAsked =>
        /\ i_size = TotalSize(AskedLevels) =>
              /\ i_impact.kind = "dict"
              /\ i_impact.levels_consumed = Len(AskedLevels)
        /\ i_size = TotalSize(AskedLevels) + OneUnit => i_impact.kind = "None"

\* C21, for a side that has at least one level and no level of size zero:
\* a requested size equal to the total size available on the side returns
\* a result whose levels_consumed is the number of levels of the side; a
\* requested size one unit larger returns None on every side of every
\* book, with no partial result.
C21_ImpactAtTotalOfPositiveLevels ==
    ImpactAsked =>
        /\ ( /\ i_size = TotalSize(AskedLevels)
             /\ AskedLevels # <<>>
             /\ \A k \in DOMAIN AskedLevels : AskedLevels[k].size > 0 ) =>
              /\ i_impact.kind = "dict"
              /\ i_impact.levels_consumed = Len(AskedLevels)
        /\ i_size = TotalSize(AskedLevels) + OneUnit => i_impact.kind = "None"

\* A buy of 35 against asks of 10 at 0.4 and 25 at 0.5 consumed both levels.
C21_Witness ==
    /\ ImpactAsked
    /\ i_side = "buy"
    /\ asks = << [price |-> 8, size |-> 200], [price |-> 10, size |-> 500] >>
    /\ i_size = 700
    /\ i_impact.kind = "dict"
    /\ i_impact.levels_consumed = 2

-----------------------------------------------------------------------------
(* Properties of the optional request parameters *)

\* A filter is supplied when it is given a non-empty text.
Supplied(value) == value.kind = "str" /\ value.s # <<>>

NoValue(value) == value.kind = "null" \/ (value.kind = "list" /\ value.s = <<>>)

\* The parameter is left out exactly when the argument has no value and
\* carries the argument's value otherwise.
SentVerbatim(arg, param) ==
    IF NoValue(arg) THEN param = Absent
    ELSE IF arg.kind = "list" THEN param = Str(JoinComma(arg.s))
    ELSE param = arg

\* The call got as far as its request.
ParamsBuilt == q_pc # "idle" /\ q_exc.type # "ValueError"

\* C23: in every list-style call an optional filter parameter is left out
\* of the request exactly when its value is None or a list without
\* elements; any other value, 0 and False included, is sent verbatim.
C23_OptionalParameters ==
    ParamsBuilt =>
        CASE q_call.op = "get_user_positions" ->
                /\ SentVerbatim(q_call.redeemable, q_params.redeemable)
                /\ SentVerbatim(q_call.mergeable, q_params.mergeable)
                /\ SentVerbatim(q_call.market, q_params.market)
                /\ SentVerbatim(q_call.event, q_params.event)
          [] q_call.op = "get_user_activity" ->
                /\ SentVerbatim(q_call.activity_types, q_params.activity_types)
                /\ SentVerbatim(q_call.side, q_params.side)
                /\ SentVerbatim(q_call.market, q_params.market)
          [] q_call.op = "get_user_trades" ->
                /\ SentVerbatim(q_call.market, q_params.market)
                /\ SentVerbatim(q_call.start_ts, q_params.start_ts)
                /\ SentVerbatim(q_call.end_ts, q_params.end_ts)
          [] q_call.op = "get_price_history" ->
                /\ SentVerbatim(q_call.start_ts, q_params.startTs)
                /\ SentVerbatim(q_call.end_ts, q_params.endTs)
                /\ SentVerbatim(q_call.fidelity, q_params.fidelity)
          [] q_call.op = "get_markets" ->
                /\ SentVerbatim(q_call.active, q_params.active)
                /\ SentVerbatim(q_call.closed, q_params.closed)

-----------------------------------------------------------------------------
(* Properties of the HTTP sessions *)

RequestsOf(client) == { i \in DOMAIN c_log : c_log[i].kind = "request" /\ c_log[i].client = client }

\* The positions where close() ran on the client, by itself or through
\* PolymarketAPI.close().
ClosesOf(client) ==
    { i \in DOMAIN c_log : \/ c_log[i].kind = "close" /\ c_log[i].client = client
                           \/ c_log[i].kind = "api_close" }

OpenSessionsOf(client) ==
    { k \in DOMAIN c_sessions : c_sessions[k].owner = client /\ c_sessions[k].closes = 0 }

\* C24: over any sequence of requests and close() calls, each source
\* client holds no session before its first request; it holds at most one
\* open session at any time, created on first use, reused by its later
\* requests and used by no other client; every session is closed at most
\* once, so that close() on a never-used or already-closed client closes
\* nothing; and after PolymarketAPI.close() no client holds an open
\* session.
C24_SessionLifecycle ==
    /\ \A client \in SourceClients :
          /\ RequestsOf(client) = {} =>
                /\ c_client[client] = 0
                /\ \A k \in DOMAIN c_sessions : c_sessions[k].owner # client
          /\ Cardinality(OpenSessionsOf(client)) <= 1
          /\ OpenSessionsOf(client) = IF c_client[client] = 0 THEN {} ELSE {c_client[client]}
          /\ \A i \in RequestsOf(client) : c_sessions[c_log[i].session].owner = client
          /\ \A i, j \in RequestsOf(client) :
                (i < j /\ \A m \in ClosesOf(client) : m < i \/ m > j) =>
                    c_log[i].session = c_log[j].session
    /\ \A k \in DOMAIN c_sessions : c_sessions[k].closes <= 1
    /\ (c_log # <<>> /\ c_log[Len(c_log)].kind = "api_close") =>
          /\ \A client \in SourceClients : c_client[client] = 0
          /\ \A k \in DOMAIN c_sessions : c_sessions[k].closes = 1

\* The trading client sent two requests on one session, was closed twice,
\* and PolymarketAPI.close() followed: one session, closed once.
C24_Witness ==
    /\ Len(c_log) = 4
    /\ c_log[1].kind = "request" /\ c_log[1].client = "clob"
    /\ c_log[2].kind = "request" /\ c_log[2].client = "clob"
    /\ c_log[1].session = c_log[2].session
    /\ c_log[3].kind = "close" /\ c_log[3].client = "clob"
    /\ c_log[4].kind = "api_close"
    /\ Len(c_sessions) = 1
    /\ c_sessions[1].closes = 1

\* C30: a trading client constructed with a non-empty api_key sends the
\* header Authorization: Bearer <api_key> on every request it makes, the
\* first request on the lazily created session and the requests made after
\* close() and re-creation of the session included.
C30_BearerOnEveryRequest ==
    (c_pc = "ready" /\ api_key \notin {"None", ""}) =>
        \A i \in RequestsOf("clob") : c_log[i].Authorization # "None"

-----------------------------------------------------------------------------
(* Properties of the scan for a slug *)

\* The answer of the upstream to the i-th request of the scan.
AnswerTo(i) == upstream[scan_requests[i]]

\* The positions of the entries of a page whose market_slug is the slug.
EntriesWithSlug(answer) == { j \in DOMAIN answer.data : answer.data[j].market_slug = scan_slug }

\* A page after which the scan goes on: it has 'data', none of its entries
\* has the slug, and its next_cursor is neither absent, empty nor 'LTE='.
GoesOn(answer) ==
    /\ answer.kind = "page"
    /\ EntriesWithSlug(answer) = {}
    /\ answer.next_cursor \notin {"None", "", "LTE="}

\* The cursor chain of an upstream, followed from `cursor` for at most
\* `pages` pages, reaches a failed or empty page or a page whose next_cursor
\* is absent, empty or 'LTE='.
RECURSIVE ChainTerminates(_, _, _)
ChainTerminates(up, cursor, pages) ==
    /\ pages > 0
    /\ \/ up[cursor].kind # "page"
       \/ up[cursor].next_cursor \in {"None", "", "LTE="}
       \/ ChainTerminates(up, up[cursor].next_cursor, pages - 1)

ScanInOrder ==
    scan_pc # "idle" =>
        /\ \A i \in DOMAIN scan_requests :
              /\ i = 1 => scan_requests[i] = "None"
              /\ i > 1 => /\ GoesOn(AnswerTo(i - 1))
                          /\ scan_requests[i] = AnswerTo(i - 1).next_cursor
        /\ (scan_pc = "scan" /\ scan_requests # <<>>) =>
              GoesOn(AnswerTo(Len(scan_requests)))
        /\ scan_pc = "scan" => scan_result = NotFound

ScanResult ==
    scan_pc = "done" =>
        LET last == AnswerTo(Len(scan_requests)) IN
        /\ scan_requests # <<>>
        /\ ~GoesOn(last)
        /\ IF last.kind = "page" /\ EntriesWithSlug(last) # {}
           THEN \E j \in EntriesWithSlug(last) :
                    /\ \A k \in EntriesWithSlug(last) : j <= k
                    /\ scan_result = [slug |-> scan_slug,
                                      condition_id |-> last.data[j].condition_id]
           ELSE scan_result = NotFound

\* C26: find_market_by_slug requests the pages in cursor order, the first
\* without a cursor and each later one with the next_cursor of the page
\* before it; it returns the first entry, in page order, of the first page
\* holding an entry with the slug, and requests nothing after that page; it
\* returns None right after the first page that failed, has an empty body or
\* no 'data', or holds no such entry and has a next_cursor that is absent,
\* empty or 'LTE='; and against an upstream whose cursor chain reaches such
\* a page the scan returns.
C26_ScanInCursorOrderAndTerminates ==
    /\ [](ScanInOrder /\ ScanResult)
    /\ (scan_pc = "scan" /\ ChainTerminates(upstream, "None", Cardinality(RequestCursors)))
          ~> (scan_pc = "done")

\* The second page requested, with the cursor 'MQ==' of the first, holds two
\* entries with the slug after one without: the scan returned the first.
C26_Witness ==
    /\ scan_pc = "done"
    /\ scan_requests = <<"None", "MQ==">>
    /\ Len(AnswerTo(2).data) = 3
    /\ scan_result = [slug |-> <<"a">>, condition_id |-> 1]

-----------------------------------------------------------------------------
(* Properties of the single-market flow *)

IsPrefix(short, long) ==
    /\ Len(short) <= Len(long)
    /\ \A i \in DOMAIN short : short[i] = long[i]

\* A price-history request was issued.
FetchBegun == \E i \in DOMAIN x_steps : x_steps[i] = "fetch"

TokenReports == { i \in DOMAIN x_reports : x_reports[i] \in {"inactive_negrisk_error", "no_tokens_error"} }

\* The steps in their order, no exception out of extract_from_url, and None
\* without a price-history request for an invalid url, a market no client
\* found and a market without a non-empty token id, with one of the two
\* reports in the last case.
FlowUpToFetch ==
    /\ \/ IsPrefix(x_steps, <<"parse", "resolve", "validate", "time_range", "fetch">>)
       \/ x_steps = <<"parse", "event">>
    /\ x_result.kind # "raise"
    /\ (x_pc = "done" /\ parse(x_url).raised) =>
          x_result = ReturnNone /\ ~FetchBegun
    /\ (x_pc = "done" /\ x_found = "none") =>
          x_result = ReturnNone /\ ~FetchBegun
    /\ (x_pc = "done" /\ x_found = "found" /\ NoValidTokens(x_market)) =>
          /\ x_result = ReturnNone /\ ~FetchBegun
          /\ Cardinality(TokenReports) = 1
    /\ (x_found = "found" /\ ~NoValidTokens(x_market)) => TokenReports = {}

\* The fetch gave no price point: it returned None, or series that are empty.
FetchGaveNoData ==
    /\ x_fetch.kind = "return"
    /\ x_fetch.isNone \/ \A o \in DOMAIN x_fetch.value : x_fetch.value[o] # "points"

\* C28: extract_from_url runs parse -> resolve -> validate tokens -> fetch in
\* that order and never raises; an invalid url, a market found by no client
\* and a market without a non-empty token id each give None before any
\* price-history request, the last with exactly one of the inactive-negRisk
\* and no-tradeable-tokens reports; a fetch that gave no data gives None.
C28_SingleMarketFlow ==
    /\ FlowUpToFetch
    /\ (x_pc = "done" /\ FetchGaveNoData) => x_result = ReturnNone

\* The same with "no data" taken as the fetch returning None: this holds.
C28_FlowWithNoneFromFetch ==
    /\ FlowUpToFetch
    /\ (x_pc = "done" /\ x_fetch.kind = "return" /\ x_fetch.isNone) =>
          x_result = ReturnNone /\ x_reports[Len(x_reports)] = "warning"

\* A market with a token whose fetch returned series without a price point:
\* extract_from_url returned the MarketHistoricalData.
C28_EmptySeriesReturned ==
    /\ x_pc = "done"
    /\ FetchGaveNoData /\ ~x_fetch.isNone
    /\ x_result.kind = "data"

====
